---- MODULE Spec2Model ----
(***************************************************************************)
(* The hybrid retrieval engine of Synapse (chat_core/kb/retriever.py):     *)
(* construction of a Retriever from the persisted knowledge-base files and *)
(* search(): dense + lexical candidates, min-max score fusion, title       *)
(* boost, optional cross-encoder rerank and MMR selection.                 *)
(*                                                                         *)
(* Numbers.  Raw dense and lexical scores are small integers, counted in   *)
(* score units; the guard 1e-12 of _minmax is EPS of these units, so that  *)
(* a spread below the guard and one above it both occur.  Normalised and   *)
(* fused scores are exact rationals <<n, d>> in lowest terms with d > 0.   *)
(* Vectors are directions at multiples of 60 degrees, whose inner products *)
(* (1, 1/2, -1/2, -1) are exact: 4, 2, -2, -4 score units.                 *)
(* Offsets.  Chunk offsets are 1-based here (Python's offset i is i + 1).  *)
(***************************************************************************)
EXTENDS Integers, Sequences, FiniteSets, TLC

VARIABLES
    disk,     \* the files of the KB directory: faiss.index, meta.json, titles.npy
    env,      \* os.environ and the importable optional packages
    retr,     \* the Retriever instance of the process ([built |-> FALSE]: none)
    loaded,   \* what a construction has loaded so far: "model", "index", "meta"
    out,      \* the outcome of the last operation, as its caller sees it
    memo,     \* the outcome of an earlier search that a caller kept
    args,     \* the arguments of a function applied on its own
    ret,      \* what that function returned
    site,     \* the call sites: chat_stream's cached RETRIEVER, constructions under way
    job       \* the position of a running index_kb.main, and the number of its run

vars == <<disk, env, retr, loaded, out, memo, args, ret, site, job>>

----------------------------------------------------------------------------
(* Bounds of the model *)

MaxChunks == 3
MaxTopK == 3
MaxCands == 3

(* Program constants *)

EPS == 2
DefaultPoolFloor == 50
DefaultMmrPoolFloor == 15
DefaultRerankFloor == 20
DefaultTitleK == 64

----------------------------------------------------------------------------
(* Arithmetic *)

Min(a, b) == IF a < b THEN a ELSE b
Max(a, b) == IF a > b THEN a ELSE b
Abs(x) == IF x < 0 THEN -x ELSE x

(* A list or array built by a comprehension, held as a sequence *)
List(f) == f \o <<>>

(* name = v, name2 = v2: local variables, assigned once and then read *)
Let(v, F(_)) == CHOOSE y \in {F(x) : x \in {v}} : TRUE
Let2(v1, v2, F(_, _)) == CHOOSE y \in {F(x1, x2) : x1 \in {v1}, x2 \in {v2}} : TRUE

RECURSIVE Gcd(_, _)
Gcd(a, b) == IF b = 0 THEN a ELSE Gcd(b, a % b)

Rat(n, d) ==
    LET g == Gcd(Abs(n), Abs(d))
        s == IF d < 0 THEN -1 ELSE 1
    IN  <<(s * n) \div g, (s * d) \div g>>

Zero == <<0, 1>>
One == <<1, 1>>
RAdd(x, y) == Rat(x[1] * y[2] + y[1] * x[2], x[2] * y[2])
RSub(x, y) == Rat(x[1] * y[2] - y[1] * x[2], x[2] * y[2])
RMul(x, y) == Rat(x[1] * y[1], x[2] * y[2])
RLt(x, y) == x[1] * y[2] < y[1] * x[2]
RLe(x, y) == x[1] * y[2] <= y[1] * x[2]

SeqMin(arr) == CHOOSE x \in {arr[i] : i \in 1..Len(arr)} :
                   \A j \in 1..Len(arr) : x <= arr[j]
SeqMax(arr) == CHOOSE x \in {arr[i] : i \in 1..Len(arr)} :
                   \A j \in 1..Len(arr) : x >= arr[j]

OrderDescTiesReversed(keys) ==
    LET n == Len(keys)
        Pos(i) == 1 + Cardinality({j \in 1..n :
                         \/ RLt(keys[i], keys[j])
                         \/ (keys[j] = keys[i] /\ j > i)})
    IN  List([p \in 1..n |-> CHOOSE i \in 1..n : Pos(i) = p])

(* The indices 1..Len(keys) in descending order of key, equal keys in      *)
(* their original order: list.sort(key=..., reverse=True) and              *)
(* np.argsort(-keys) on the short arrays of this module.                   *)
OrderDesc(keys) ==
    LET n == Len(keys)
        Pos(i) == 1 + Cardinality({j \in 1..n :
                         \/ RLt(keys[i], keys[j])
                         \/ (keys[j] = keys[i] /\ j < i)})
    IN  List([p \in 1..n |-> CHOOSE i \in 1..n : Pos(i) = p])

(* seq[:n] for n >= 0 *)
Prefix(seq, n) == SubSeq(seq, 1, Min(n, Len(seq)))

Range(seq) == {seq[i] : i \in 1..Len(seq)}

(* sorted(set) of offsets *)
SortedSeq(S) ==
    List([p \in 1..Cardinality(S) |->
            CHOOSE x \in S : Cardinality({y \in S : y < x}) = p - 1])

IntSeqToRat(arr) == List([i \in 1..Len(arr) |-> <<arr[i], 1>>])

----------------------------------------------------------------------------
(* The capabilities the retriever consumes *)

(* str.lower() on the words of this model *)
Lower(w) == IF w = "Beta" THEN "beta" ELSE w

(* text.lower().split(): a text is held as its whitespace-separated words *)
LowerSplit(text) == List([i \in 1..Len(text) |-> Lower(text[i])])

(* str.strip() on the titles of this model *)
Strip(t) ==
    CASE t = "Alpha " -> "Alpha"
      [] t = " " -> ""
      [] OTHER -> t

(* SentenceTransformer.encode followed by L2 normalisation: the direction  *)
(* (a multiple of 60 degrees) of a text.  Deterministic for a model.       *)
ModelEncode(text) ==
    CASE text = <<"alpha">> -> 0
      [] text = <<"alpha", "alpha">> -> 1
      [] text = <<"Beta", "beta">> -> 3
      [] text = <<"alpha", "beta">> -> 1
      [] text = <<"gamma", "alpha">> -> 2
      [] text = <<"beta">> -> 1
      [] text = <<"gamma">> -> 2
      [] text = <<"Alpha">> -> 0
      [] text = <<"Beta">> -> 3
      [] OTHER -> 0

(* Inner product of two unit vectors, in score units *)
Cos(a, b) ==
    LET d == Abs(a - b) % 6
    IN  CASE d = 0 -> 4
          [] d = 1 -> 2
          [] d = 2 -> -2
          [] d = 3 -> -4
          [] d = 4 -> -2
          [] OTHER -> 2

(* faiss IndexFlatIP.search(q, k): the offsets of the k rows of largest    *)
(* inner product (fewer when the index holds fewer), with their scores.    *)
IndexSearch(index, q, k) ==
    LET D == List([i \in 1..Len(index) |-> Cos(index[i], q)])
    IN  Prefix(OrderDesc(IntSeqToRat(D)), k)

Count(w, toks) == Cardinality({i \in 1..Len(toks) : toks[i] = w})

RECURSIVE SumCounts(_, _)
SumCounts(qtoks, toks) ==
    IF qtoks = <<>> THEN 0
    ELSE Count(Head(qtoks), toks) + SumCounts(Tail(qtoks), toks)

(* BM25Okapi(corpus).get_scores(query tokens): one lexical score per chunk. *)
(* The term-frequency sum stands for the library's scoring function, one    *)
(* occurrence of a query term counting two score units.                     *)
Bm25GetScores(corpusToks, qtoks) ==
    List([i \in 1..Len(corpusToks) |-> 2 * SumCounts(qtoks, corpusToks[i])])

(* CrossEncoder.predict on one (query, text) pair; a fixed scoring table    *)
(* stands for the learned model.                                            *)
RerankerPredict(query, text) ==
    2 * Len(text) + (IF Lower(text[1]) = Lower(query[1]) THEN 1 ELSE 0)

----------------------------------------------------------------------------
(* Retriever: utilities *)

MinmaxOnes(arr) ==
    IF Len(arr) = 0 THEN <<>>
    ELSE Let2(SeqMin(arr), SeqMax(arr), LAMBDA mn, mx :
             IF mx - mn < EPS
             THEN List([i \in 1..Len(arr) |-> One])
             ELSE List([i \in 1..Len(arr) |-> Rat(arr[i] - mn, mx - mn + EPS)]))

(* _minmax(arr) *)
Minmax(arr) ==
    IF Len(arr) = 0 THEN <<>>
    ELSE Let2(SeqMin(arr), SeqMax(arr), LAMBDA mn, mx :
             IF mx - mn < EPS
             THEN List([i \in 1..Len(arr) |-> Zero])
             ELSE List([i \in 1..Len(arr) |-> Rat(arr[i] - mn, mx - mn + EPS)]))

TitleSimUntruncated(r, q) ==
    IF ~r.use_titles \/ r.titles_vecs_none \/ Len(r.titles_list) = 0
    THEN <<>>
    ELSE Let(List([i \in 1..Len(r.titles_vecs) |-> Cos(r.titles_vecs[i], q)]), LAMBDA sims :
         Let(Minmax(sims), LAMBDA sims_norm :
                  [t \in Range(r.titles_list) |->
                      sims_norm[CHOOSE i \in 1..Len(sims) : r.titles_list[i] = t]]))

(* title -> similarity in [0, 1]; the empty function when titles are off.  *)
(* np.argpartition keeps the title_k most similar rows; among equal        *)
(* similarities at the cut the lower row is kept.                          *)
TitleSim(r, q) ==
    IF ~r.use_titles \/ r.titles_vecs_none \/ Len(r.titles_list) = 0
    THEN <<>>
    ELSE Let(List([i \in 1..Len(r.titles_vecs) |-> Cos(r.titles_vecs[i], q)]), LAMBDA sims :
         IF r.title_k # 0 /\ r.title_k < Len(sims)
         THEN Let(Prefix(OrderDesc(IntSeqToRat(sims)), r.title_k), LAMBDA top_idx :
              Let(Minmax(List([j \in 1..Len(top_idx) |-> sims[top_idx[j]]])),
                  LAMBDA sims_norm :
                  [t \in {r.titles_list[top_idx[j]] : j \in 1..Len(top_idx)} |->
                      sims_norm[CHOOSE j \in 1..Len(top_idx) :
                                    r.titles_list[top_idx[j]] = t]]))
         ELSE Let(Minmax(sims), LAMBDA sims_norm :
                  [t \in Range(r.titles_list) |->
                      sims_norm[CHOOSE i \in 1..Len(sims) : r.titles_list[i] = t]]))

FillScoresLowest(cand_list, ids, score) ==
    List([j \in 1..Len(cand_list) |->
             IF cand_list[j] \in ids THEN score[cand_list[j]] ELSE -EPS])

(* vec_map.get(i, 0.0) and bm25_map.get(i, 0.0) over the candidate list:  *)
(* a candidate absent from one set gets the raw score 0 on that axis       *)
FillScores(cand_list, ids, score) ==
    List([j \in 1..Len(cand_list) |->
             IF cand_list[j] \in ids THEN score[cand_list[j]] ELSE 0])

FusedUnweighted(alpha_hybrid, v_norm, b_norm) ==
    List([j \in 1..Len(v_norm) |->
             RAdd(RMul(alpha_hybrid, v_norm[j]), b_norm[j])])

(* alpha_hybrid * v_norm + (1.0 - alpha_hybrid) * b_norm *)
Fused(alpha_hybrid, v_norm, b_norm) ==
    List([j \in 1..Len(v_norm) |->
             RAdd(RMul(alpha_hybrid, v_norm[j]),
                  RMul(RSub(One, alpha_hybrid), b_norm[j]))])

CorpusIsEmptyNever(r) == FALSE

(* if not self.meta *)
CorpusIsEmpty(r) == Len(r.meta) = 0

PropagateSwallowed(seen, n) == [seen EXCEPT !.encodes = n]

(* An exception of the embedding model has no handler in _encode_query,    *)
(* _hybrid_rank, _mmr or search: the call ends with it, at its n-th encode *)
Propagate(seen, n) == [seen EXCEPT !.err = "EmbeddingFailure", !.encodes = n]

(* _encode_query: the direction of the query *)
EncodeQuery(query) == ModelEncode(query)

NoRanking == [err |-> "", ranked |-> <<>>, cand_list |-> <<>>,
              vec_ids |-> {}, bm25_ids |-> {}, encodes |-> 0]

(* _hybrid_rank.  emb is the ordinal of the encode call of this search     *)
(* that raises (0: none does).  ranked holds one record per candidate,     *)
(* sorted by total score, descending.                                      *)
HybridRank(r, query, emb) ==
    IF CorpusIsEmpty(r) THEN NoRanking
    ELSE IF emb = 1 THEN Propagate(NoRanking, 1)
    ELSE
    Let(EncodeQuery(query), LAMBDA q :
    Let2(Range(IndexSearch(r.index, q, Min(r.vec_k, Len(r.meta)))),
         IF r.bm25
         THEN Bm25GetScores(List([i \in 1..Len(r.texts) |-> LowerSplit(r.texts[i])]),
                            LowerSplit(query))
         ELSE <<>>,
         LAMBDA vec_ids, bm :
    Let2([i \in vec_ids |-> Cos(r.index[i], q)],
         Range(IF r.bm25
               THEN Prefix(OrderDesc(IntSeqToRat(bm)), Min(r.bm25_k, Len(bm)))
               ELSE <<>>),
         LAMBDA vec_map, bm25_ids :
    Let(SortedSeq(vec_ids \cup bm25_ids), LAMBDA cand_list :
    IF Len(cand_list) = 0
    THEN [NoRanking EXCEPT !.encodes = 1]
    ELSE
    Let2(Minmax(FillScores(cand_list, vec_ids, vec_map)),
         Minmax(FillScores(cand_list, bm25_ids, bm)),
         LAMBDA v_norm, b_norm :
    Let2(Fused(r.alpha_hybrid, v_norm, b_norm),
         IF r.use_titles /\ ~r.titles_vecs_none THEN TitleSim(r, q) ELSE <<>>,
         LAMBDA fused, tmap :
    Let(List([j \in 1..Len(cand_list) |->
                LET t == Strip(r.meta[cand_list[j]].title)
                IN  IF t # "" /\ t \in DOMAIN tmap
                    THEN RMul(tmap[t], r.title_boost) ELSE Zero]),
        LAMBDA title_boosts :
    Let(List([j \in 1..Len(cand_list) |-> RAdd(fused[j], title_boosts[j])]),
        LAMBDA total :
    Let(OrderDesc(total), LAMBDA order :
        [err |-> "",
         ranked |-> List([p \in 1..Len(cand_list) |->
                            [idx |-> cand_list[order[p]],
                             v |-> v_norm[order[p]],
                             b |-> b_norm[order[p]],
                             h |-> fused[order[p]],
                             t |-> title_boosts[order[p]],
                             tot |-> total[order[p]]]]),
         cand_list |-> cand_list,
         vec_ids |-> vec_ids,
         bm25_ids |-> bm25_ids,
         encodes |-> 1])))))))))

(* except Exception: return candidates[:limit] *)
RerankFailed(candidates, limit) == Prefix(candidates, limit)

(* _rerank: candidates reordered by the cross-encoder, or passed through   *)
Rerank(r, query, candidates, limit) ==
    IF Len(candidates) = 0 \/ r.reranker = "None"
    THEN Prefix(candidates, limit)
    ELSE IF r.reranker = "raises"
    THEN RerankFailed(candidates, limit)
    ELSE Let(OrderDesc(IntSeqToRat(List([i \in 1..Len(candidates) |->
                           RerankerPredict(query, r.texts[candidates[i]])]))),
             LAMBDA order :
             List([p \in 1..Min(limit, Len(candidates)) |-> candidates[order[p]]]))

MmrBestInPoolOrder(cand_vecs, qv, lambda_mult, selected_pos) ==
    LET free == (1..Len(cand_vecs)) \ Range(selected_pos)
    IN  IF free = {} THEN 0
        ELSE CHOOSE i \in free : \A j \in free : i <= j

MmrBestPenaltyAdded(cand_vecs, qv, lambda_mult, selected_pos) ==
    LET n == Len(cand_vecs)
        free == (1..n) \ Range(selected_pos)
        sim_q(i) == Rat(Cos(cand_vecs[i], qv), 4)
        div_pen(i) ==
            IF selected_pos = <<>> THEN Zero
            ELSE LET m == CHOOSE x \in {Cos(cand_vecs[i], cand_vecs[j]) :
                                           j \in Range(selected_pos)} :
                              \A j \in Range(selected_pos) :
                                  Cos(cand_vecs[i], cand_vecs[j]) <= x
                 IN  Rat(m, 4)
        mmr(i) == RAdd(RMul(lambda_mult, sim_q(i)),
                       RMul(RSub(One, lambda_mult), div_pen(i)))
    IN  IF free = {} THEN 0
        ELSE CHOOSE i \in free :
                 \A j \in free : /\ RLe(mmr(j), mmr(i))
                                 /\ (mmr(j) = mmr(i) => i <= j)

MmrBestUnmasked(cand_vecs, qv, lambda_mult, selected_pos) ==
    LET n == Len(cand_vecs)
        sim_q(i) == Rat(Cos(cand_vecs[i], qv), 4)
        div_pen(i) ==
            IF selected_pos = <<>> THEN Zero
            ELSE LET m == CHOOSE x \in {Cos(cand_vecs[i], cand_vecs[j]) :
                                           j \in Range(selected_pos)} :
                              \A j \in Range(selected_pos) :
                                  Cos(cand_vecs[i], cand_vecs[j]) <= x
                 IN  Rat(m, 4)
        mmr(i) == RSub(RMul(lambda_mult, sim_q(i)),
                       RMul(RSub(One, lambda_mult), div_pen(i)))
    IN  IF n = 0 THEN 0
        ELSE CHOOSE i \in 1..n :
                 \A j \in 1..n : /\ RLe(mmr(j), mmr(i))
                                 /\ (mmr(j) = mmr(i) => i <= j)

(* One pass of the selection loop of _mmr: the position in the pool of the *)
(* unselected candidate of largest MMR score, the first of them when       *)
(* several are equal (the scan replaces its best only on a strictly larger *)
(* score; every score is above the scan's initial -1e9).                   *)
MmrBest(cand_vecs, qv, lambda_mult, selected_pos) ==
    LET n == Len(cand_vecs)
        free == (1..n) \ Range(selected_pos)
        sim_q(i) == Rat(Cos(cand_vecs[i], qv), 4)
        div_pen(i) ==
            IF selected_pos = <<>> THEN Zero
            ELSE LET m == CHOOSE x \in {Cos(cand_vecs[i], cand_vecs[j]) :
                                           j \in Range(selected_pos)} :
                              \A j \in Range(selected_pos) :
                                  Cos(cand_vecs[i], cand_vecs[j]) <= x
                 IN  Rat(m, 4)
        mmr(i) == RSub(RMul(lambda_mult, sim_q(i)),
                       RMul(RSub(One, lambda_mult), div_pen(i)))
    IN  IF free = {} THEN 0
        ELSE CHOOSE i \in free :
                 \A j \in free : /\ RLe(mmr(j), mmr(i))
                                 /\ (mmr(j) = mmr(i) => i <= j)

RECURSIVE MmrLoop(_, _, _, _, _)
MmrLoop(cand_vecs, qv, lambda_mult, selected_pos, steps) ==
    IF steps = 0 THEN selected_pos
    ELSE Let(MmrBest(cand_vecs, qv, lambda_mult, selected_pos), LAMBDA best_i :
             IF best_i = 0 THEN selected_pos
             ELSE Let(Append(selected_pos, best_i), LAMBDA selected :
                      MmrLoop(cand_vecs, qv, lambda_mult, selected, steps - 1)))

MmrKUnclamped(k, n) == Min(k, n)

(* The number of picks _mmr makes from a pool of n candidates *)
MmrK(k, n) == Max(1, Min(k, n))

(* _mmr: the selected offsets, in the order selected *)
Mmr(r, qv, candidate_ids, k, lambda_mult) ==
    IF Len(candidate_ids) = 0 THEN <<>>
    ELSE Let(List([i \in 1..Len(candidate_ids) |->
                     ModelEncode(r.texts[candidate_ids[i]])]), LAMBDA cand_vecs :
         Let(MmrLoop(cand_vecs, qv, lambda_mult, <<>>, MmrK(k, Len(candidate_ids))),
             LAMBDA sel :
             List([p \in 1..Len(sel) |-> candidate_ids[sel[p]]])))

(* max(self.mmr_pool, self.rerank_from): the cut of the fused ranking *)
PoolCut(r) == Max(r.mmr_pool, r.rerank_from)

ResultAliasShared(r, idx) == idx

(* m = dict(self.meta[idx]): the entry of meta that the returned record is *)
(* the same object as (0: none, the record is a new dict whose values are  *)
(* immutable strings and integers)                                         *)
ResultAlias(r, idx) == 0

ResultRecordDefault(r, ranked, idx) ==
    LET m == r.meta[idx]
    IN  [id |-> m.id, doc |-> m.doc, title |-> m.title, chunk_id |-> m.chunk_id,
         text |-> m.text,
         score_vec_norm |-> Zero, score_bm25_norm |-> Zero, score_hybrid |-> Zero,
         score_title |-> Zero, score_total |-> Zero]

(* One returned record: dict(self.meta[idx]) with the scores of hybrid_map *)
ResultRecord(r, ranked, idx) ==
    LET m == r.meta[idx]
        e == ranked[CHOOSE p \in 1..Len(ranked) : ranked[p].idx = idx]
    IN  [id |-> m.id, doc |-> m.doc, title |-> m.title, chunk_id |-> m.chunk_id,
         text |-> m.text,
         score_vec_norm |-> e.v, score_bm25_norm |-> e.b, score_hybrid |-> e.h,
         score_title |-> e.t, score_total |-> e.tot]

NoOutcome == [err |-> "", result |-> <<>>, final_ids |-> <<>>, pool |-> <<>>,
              ranked |-> <<>>, cand_list |-> <<>>, vec_ids |-> {}, bm25_ids |-> {},
              encodes |-> 0]

(* search(query, top_k=k_final): what the caller gets (err # "": the       *)
(* exception that reaches it, and then no result), with the intermediate   *)
(* values of the call.                                                     *)
Search(r, query, k_final, emb) ==
    Let(HybridRank(r, query, emb), LAMBDA hr :
    Let([NoOutcome EXCEPT !.ranked = hr.ranked, !.cand_list = hr.cand_list,
                          !.vec_ids = hr.vec_ids, !.bm25_ids = hr.bm25_ids,
                          !.encodes = hr.encodes], LAMBDA seen :
    IF hr.err # "" THEN [seen EXCEPT !.err = hr.err]
    ELSE IF Len(hr.ranked) = 0 THEN seen
    ELSE
    Let(List([p \in 1..Min(PoolCut(r), Len(hr.ranked)) |-> hr.ranked[p].idx]),
        LAMBDA cut :
    Let(IF r.reranker # "None" /\ Len(cut) > 0
        THEN Rerank(r, query, cut, Len(cut))
        ELSE cut, LAMBDA pool :
    IF emb = 2 THEN Propagate([seen EXCEPT !.pool = pool], 2)
    ELSE IF emb = 3 /\ Len(pool) > 0 THEN Propagate([seen EXCEPT !.pool = pool], 3)
    ELSE
    Let(Mmr(r, EncodeQuery(query), pool, k_final, r.mmr_lambda), LAMBDA final_ids :
        [seen EXCEPT !.pool = pool,
                     !.final_ids = final_ids,
                     !.result = List([p \in 1..Len(final_ids) |->
                                         ResultRecord(r, hr.ranked, final_ids[p])]),
                     !.encodes = IF Len(pool) > 0 THEN 3 ELSE 2])))))

SelfAfterSearchResizing(r, query, k_final) ==
    [r EXCEPT !.mmr_pool = k_final, !.rerank_from = k_final]

(* The instance after a search: search assigns no attribute of self *)
SelfAfterSearch(r, query, k_final) == r

----------------------------------------------------------------------------
(* Retriever.__init__ *)

NoRetriever == [built |-> FALSE]

EnvGet(e, name, default) ==
    IF name \in DOMAIN e.vars THEN e.vars[name] ELSE default

DefaultAlpha == <<3, 5>>
DefaultMmrLambda == <<3, 5>>
DefaultTitleBoost == <<1, 4>>

(* The optional reranker a model name stands for: CrossEncoder(name) fails *)
(* to load, or loads a model whose predict works or raises.                *)
CrossEncoderLoad(name) ==
    CASE name = "ce-ok" -> "ok"
      [] name = "ce-raises" -> "raises"
      [] OTHER -> "None"

(* The distinct non-empty stripped titles of meta, in first-seen order *)
RECURSIVE TitlesList(_, _)
TitlesList(meta, acc) ==
    IF meta = <<>> THEN acc
    ELSE LET t == Strip(Head(meta).title)
         IN  TitlesList(Tail(meta),
                        IF t = "" \/ t \in Range(acc) THEN acc ELSE Append(acc, t))

FilesPresentIndexOnly(d) == d.index.present

(* INDEX_PATH.is_file() and META_PATH.is_file() *)
FilesPresent(d) == d.index.present /\ d.meta.present

TitlesAlignedEnough(rows, titles_list) == Len(rows) >= Len(titles_list)

(* self._titles_vecs.shape[0] == len(self._titles_list) *)
TitlesAligned(rows, titles_list) == Len(rows) = Len(titles_list)

(* What Retriever(top_k) gives under environment e and KB directory d:     *)
(* err # "" is the exception raised, and then there is no instance.        *)
Construct(top_k, e, d) ==
    IF ~FilesPresent(d)
    THEN [err |-> "FileNotFoundError", retr |-> NoRetriever, loaded |-> {}]
    ELSE
    Let2(d.meta.chunks,
         /\ EnvGet(e, "RAG_USE_TITLES", "1") \notin {"0", "false", "False"}
         /\ d.titles.state # "absent",
         LAMBDA meta, table :
    Let2(IF table THEN TitlesList(meta, <<>>) ELSE <<>>,
         EnvGet(e, "RAG_RERANKER", ""),
         LAMBDA titles_list, name :
    Let(/\ table
        /\ d.titles.state = "ok"
        /\ TitlesAligned(d.titles.rows, titles_list),
        LAMBDA aligned :
        [err |-> "",
         loaded |-> {"model", "index", "meta"},
         retr |->
           [built |-> TRUE,
            top_k |-> top_k,
            alpha_hybrid |-> EnvGet(e, "RAG_ALPHA", DefaultAlpha),
            vec_k |-> EnvGet(e, "RAG_VEC_K", Max(top_k * 5, DefaultPoolFloor)),
            bm25_k |-> EnvGet(e, "RAG_BM25_K", Max(top_k * 5, DefaultPoolFloor)),
            mmr_lambda |-> EnvGet(e, "RAG_MMR_LAMBDA", DefaultMmrLambda),
            mmr_pool |-> EnvGet(e, "RAG_MMR_POOL", Max(top_k * 3, DefaultMmrPoolFloor)),
            rerank_from |-> EnvGet(e, "RAG_RERANK_FROM", Max(top_k * 5, DefaultRerankFloor)),
            title_boost |-> EnvGet(e, "RAG_TITLE_BOOST", DefaultTitleBoost),
            title_k |-> EnvGet(e, "RAG_TITLE_K", DefaultTitleK),
            use_titles |-> aligned,
            index |-> d.index.vecs,
            meta |-> meta,
            texts |-> List([i \in 1..Len(meta) |-> meta[i].text]),
            titles_list |-> titles_list,
            titles_vecs |-> IF aligned THEN d.titles.rows ELSE <<>>,
            titles_vecs_none |-> ~aligned,
            bm25 |-> Len(meta) > 0 /\ e.bm25_importable,
            reranker |-> IF name # "" /\ e.cross_encoder_importable
                         THEN CrossEncoderLoad(name) ELSE "None"]])))

----------------------------------------------------------------------------
(* The worlds the retriever is run in: what the ingestion left on disk and *)
(* how the process is configured.                                          *)

ChunkA1 == [doc |-> "A", title |-> "Alpha", chunk_id |-> 0,
            text |-> <<"alpha">>, id |-> "a1"]
ChunkA2 == [doc |-> "A", title |-> "Alpha ", chunk_id |-> 1,
            text |-> <<"alpha", "alpha">>, id |-> "a2"]
ChunkB1 == [doc |-> "B", title |-> "Beta", chunk_id |-> 0,
            text |-> <<"Beta", "beta">>, id |-> "b1"]
ChunkC1 == [doc |-> "C", title |-> "", chunk_id |-> 0,
            text |-> <<"alpha", "beta">>, id |-> "c1"]

Palette == {ChunkA1, ChunkA2, ChunkB1, ChunkC1}

(* Chunk lists without a repeated chunk (ingestion drops repeated texts) *)
Corpora ==
    UNION {{c \in [1..n -> Palette] : \A i, j \in 1..n : i # j => c[i] # c[j]} :
              n \in 0..MaxChunks}

Queries == {<<"beta">>, <<"gamma">>}

(* The rows index_kb writes for a chunk list: one embedding per chunk, and *)
(* one per distinct title.                                                 *)
IndexRows(chunks) == List([i \in 1..Len(chunks) |-> ModelEncode(chunks[i].text)])
TitleRows(chunks) ==
    LET tl == TitlesList(chunks, <<>>)
    IN  List([i \in 1..Len(tl) |-> ModelEncode(<<tl[i]>>)])

TitleTables(chunks) ==
    LET rows == TitleRows(chunks)
    IN  {[state |-> "absent", rows |-> <<>>],
         [state |-> "unreadable", rows |-> <<>>],
         [state |-> "ok", rows |-> rows],
         [state |-> "ok", rows |-> Append(rows, 1)],
         [state |-> "ok", rows |-> Prefix(rows, Len(rows) - 1)]}

DiskOf(chunks, titles) ==
    [index |-> [present |-> TRUE, vecs |-> IndexRows(chunks)],
     meta |-> [present |-> TRUE, chunks |-> chunks],
     titles |-> titles]

NoTitles == [state |-> "absent", rows |-> <<>>]

EnvOf(assignments) ==
    [vars |-> assignments, bm25_importable |-> TRUE, cross_encoder_importable |-> TRUE]

Pair(n1, v1, n2, v2) == [x \in {n1, n2} |-> IF x = n1 THEN v1 ELSE v2]
Triple(n1, v1, n2, v2, n3, v3) ==
    [x \in {n1, n2, n3} |-> IF x = n1 THEN v1 ELSE IF x = n2 THEN v2 ELSE v3]

(* Pool knobs and the reranker *)
PoolEnvs ==
    {EnvOf(Triple("RAG_MMR_POOL", mp, "RAG_RERANK_FROM", rf, "RAG_RERANKER", ce)) :
        mp \in {0, 1, MaxTopK}, rf \in {0, 2}, ce \in {"", "ce-ok", "ce-raises"}}

(* Mixing weights *)
MixEnvs ==
    {EnvOf(Pair("RAG_ALPHA", a, "RAG_MMR_LAMBDA", l)) :
        a \in {Zero, One, <<1, 2>>}, l \in {Zero, One, DefaultMmrLambda}}

(* Candidate generation *)
CandEnvs ==
    {EnvOf(Pair("RAG_VEC_K", vk, "RAG_BM25_K", bk)) : vk \in {0, 1}, bk \in {0, 1}}
    \cup {[vars |-> Pair("RAG_VEC_K", vk, "RAG_RERANKER", "ce-ok"),
           bm25_importable |-> FALSE, cross_encoder_importable |-> FALSE] :
             vk \in {0, DefaultPoolFloor}}
    \cup {[vars |-> Pair("RAG_ALPHA", Zero, "RAG_USE_TITLES", "0"),
           bm25_importable |-> FALSE, cross_encoder_importable |-> TRUE]}

(* Title boost *)
TitleEnvs ==
    {EnvOf(Pair("RAG_USE_TITLES", ut, "RAG_TITLE_K", tk)) :
        ut \in {"1", "0"}, tk \in {1, DefaultTitleK}}

Worlds ==
    {[disk |-> DiskOf(c, NoTitles), env |-> e] :
        c \in Corpora, e \in PoolEnvs \cup MixEnvs \cup CandEnvs}
    \cup UNION {{[disk |-> DiskOf(c, t), env |-> e] :
                    t \in TitleTables(c), e \in TitleEnvs} : c \in Corpora}
    \cup {[disk |-> [DiskOf(<<ChunkA1>>, NoTitles) EXCEPT
                        !.index.present = ip, !.meta.present = mp],
           env |-> EnvOf(<<>>)] :
            ip \in BOOLEAN, mp \in BOOLEAN}

CtorTopKs == {MaxTopK - 1}
TopKs == 0..MaxTopK
EmbFaults == 0..3

----------------------------------------------------------------------------
(* The state machine *)

Outcome(op, query, k, emb, err, res) ==
    [op |-> op, query |-> query, top_k |-> k, emb |-> emb, err |-> err, res |-> res]

NoCall == Outcome("none", <<>>, 0, 0, "", NoOutcome)

Idle == [fn |-> "none"]

(* No construction under way at a call site, RETRIEVER = None, and no      *)
(* search issued yet                                                       *)
NoView == [pc |-> "idle"]
NoIssue == [by |-> "none", run |-> 0, settled |-> FALSE]
NoSite == [app |-> NoView, stream |-> NoView, RETRIEVER |-> NoRetriever,
           unavailable |-> FALSE, KB_INDEX |-> <<>>, RAG_KB_INDEX |-> <<>>,
           issue |-> NoIssue]

(* No index_kb.main running; run 1 wrote the files the process starts with *)
NoJob == [pc |-> "idle", run |-> 1]

(* A kept outcome, and whether a search with other arguments came after it *)
NoMemo == [call |-> NoCall, between |-> FALSE]

SameCall(a, query, k, emb) ==
    a.op = "search" /\ a.query = query /\ a.top_k = k /\ a.emb = emb

MemoAfter(m, query, k, emb) ==
    IF m.call.op = "search" /\ ~SameCall(m.call, query, k, emb)
    THEN [m EXCEPT !.between = TRUE] ELSE m

Init ==
    /\ \E w \in Worlds : disk = w.disk /\ env = w.env
    /\ retr = NoRetriever
    /\ loaded = {}
    /\ out = NoCall
    /\ memo = NoMemo
    /\ args = Idle
    /\ ret = Idle
    /\ site = NoSite
    /\ job = NoJob

(* retr = Retriever(top_k=top_k) *)
DoConstruct ==
    /\ out.op = "none"
    /\ \E top_k \in CtorTopKs :
        \E c \in {Construct(top_k, env, disk)} :
            /\ retr' = c.retr
            /\ loaded' = c.loaded
            /\ out' = Outcome("construct", <<>>, top_k, 0, c.err, NoOutcome)
            /\ UNCHANGED <<disk, env, memo, args, ret, site, job>>

(* retr.search(query, top_k=top_k) *)
DoSearch ==
    /\ out.op = "none"
    /\ retr.built
    /\ \E query \in Queries, top_k \in TopKs, emb \in EmbFaults :
        \E res \in {Search(retr, query, top_k, emb)} :
            /\ out' = Outcome("search", query, top_k, emb, res.err, res)
            /\ retr' = SelfAfterSearch(retr, query, top_k)
            /\ memo' = MemoAfter(memo, query, top_k, emb)
            /\ UNCHANGED <<disk, env, loaded, args, ret, site, job>>

(* retr.search(query): top_k is the instance's *)
DoSearchDefault ==
    /\ out.op = "none"
    /\ retr.built
    /\ \E query \in Queries, emb \in EmbFaults :
        \E res \in {Search(retr, query, retr.top_k, emb)} :
            /\ out' = Outcome("search", query, retr.top_k, emb, res.err, res)
            /\ retr' = SelfAfterSearch(retr, query, retr.top_k)
            /\ memo' = MemoAfter(memo, query, retr.top_k, emb)
            /\ UNCHANGED <<disk, env, loaded, args, ret, site, job>>

(* The caller is done with what the last call gave it *)
Return ==
    /\ out.op # "none"
    /\ out' = NoCall
    /\ UNCHANGED <<disk, env, retr, loaded, memo, args, ret, site, job>>

Next == DoConstruct \/ DoSearch \/ DoSearchDefault \/ Return

Spec == Init /\ [][Next]_vars

(* A caller that keeps the result of one successful search, to compare it  *)
(* with what the same call gives later.                                    *)
Keep ==
    /\ out.op = "search"
    /\ out.err = ""
    /\ memo.call.op = "none"
    /\ memo' = [call |-> out, between |-> FALSE]
    /\ out' = NoCall
    /\ UNCHANGED <<disk, env, retr, loaded, args, ret, site, job>>

IdemWorlds ==
    {[disk |-> DiskOf(c, [state |-> "ok", rows |-> TitleRows(c)]),
      env |-> EnvOf(Pair("RAG_RERANKER", "ce-ok", "RAG_TITLE_K", DefaultTitleK))] :
        c \in Corpora}

InitIdem ==
    /\ \E w \in IdemWorlds : disk = w.disk /\ env = w.env
    /\ retr = NoRetriever
    /\ loaded = {}
    /\ out = NoCall
    /\ memo = NoMemo
    /\ args = Idle
    /\ ret = Idle
    /\ site = NoSite
    /\ job = NoJob

NextIdem == DoConstruct \/ DoSearch \/ DoSearchDefault \/ Return \/ Keep

SpecIdem == InitIdem /\ [][NextIdem]_vars

(* A caller that assigns a field of a record search returned to it; the    *)
(* assignment reaches the instance when the record is an entry of its meta *)
CallerEdits ==
    /\ out.op = "search"
    /\ out.err = ""
    /\ \E p \in 1..Len(out.res.result) :
        \E a \in {ResultAlias(retr, out.res.final_ids[p])} :
            /\ out' = [out EXCEPT !.op = "edited", !.res.result[p].text = <<"edited">>]
            /\ retr' = IF a = 0 THEN retr ELSE [retr EXCEPT !.meta[a].text = <<"edited">>]
    /\ UNCHANGED <<disk, env, loaded, memo, args, ret, site, job>>

NextFrame == DoConstruct \/ DoSearch \/ DoSearchDefault \/ Return \/ CallerEdits

SpecFrame == InitIdem /\ [][NextFrame]_vars

----------------------------------------------------------------------------
(* Queries written with punctuation or capitals, searched on the corpora   *)
(* of IdemWorlds.  A query is held as its whitespace-separated words, so   *)
(* "beta?" is the one word "beta?".                                        *)

PunctuatedQueries == {<<"beta">>, <<"beta?">>, <<"Beta">>, <<"alpha,", "beta">>}

(* retr.search(query) *)
DoSearchPunctuated ==
    /\ out.op = "none"
    /\ retr.built
    /\ \E query \in PunctuatedQueries :
        \E res \in {Search(retr, query, retr.top_k, 0)} :
            /\ out' = Outcome("search", query, retr.top_k, 0, res.err, res)
            /\ retr' = SelfAfterSearch(retr, query, retr.top_k)
    /\ UNCHANGED <<disk, env, loaded, memo, args, ret, site, job>>

NextTokens == DoConstruct \/ DoSearchPunctuated \/ Return

SpecTokens == InitIdem /\ [][NextTokens]_vars

----------------------------------------------------------------------------
(* The context block of the two call sites (rag.py and chat_stream.py,     *)
(* build_context_block): the retriever first, the text files under the KB  *)
(* directory when it gives nothing.  A Python string is held here as the   *)
(* sequence of its characters.                                             *)

Upper == <<"A", "B", "C", "D", "E", "F", "G", "H", "I", "J", "K", "L", "M",
           "N", "O", "P", "Q", "R", "S", "T", "U", "V", "W", "X", "Y", "Z">>
Lowers == <<"a", "b", "c", "d", "e", "f", "g", "h", "i", "j", "k", "l", "m",
           "n", "o", "p", "q", "r", "s", "t", "u", "v", "w", "x", "y", "z">>
Digits == {"0", "1", "2", "3", "4", "5", "6", "7", "8", "9"}

(* str.lower() *)
LowerChars(s) ==
    [i \in 1..Len(s) |->
        IF \E n \in 1..Len(Upper) : Upper[n] = s[i]
        THEN Lowers[CHOOSE n \in 1..Len(Upper) : Upper[n] = s[i]]
        ELSE s[i]]

(* str.strip() *)
RECURSIVE StripChars(_)
StripChars(s) ==
    IF s = <<>> THEN s
    ELSE IF Head(s) = " " THEN StripChars(Tail(s))
    ELSE IF s[Len(s)] = " " THEN StripChars(SubSeq(s, 1, Len(s) - 1))
    ELSE s

(* re.findall(r"[A-Za-z0-9]+", s): the maximal runs of letters and digits *)
RECURSIVE Findall(_, _, _)
Findall(s, word, acc) ==
    IF s = <<>> THEN (IF word = <<>> THEN acc ELSE Append(acc, word))
    ELSE IF Head(s) \in Range(Upper) \cup Range(Lowers) \cup Digits
    THEN Findall(Tail(s), Append(word, Head(s)), acc)
    ELSE Findall(Tail(s), <<>>, IF word = <<>> THEN acc ELSE Append(acc, word))

(* str.count(w): the occurrences of w in c that do not overlap *)
RECURSIVE StrCount(_, _)
StrCount(c, w) ==
    IF Len(c) < Len(w) THEN 0
    ELSE IF SubSeq(c, 1, Len(w)) = w
    THEN 1 + StrCount(SubSeq(c, Len(w) + 1, Len(c)), w)
    ELSE StrCount(Tail(c), w)

STOP ==
    {<<"a">>, <<"a", "n">>, <<"a", "n", "d">>, <<"a", "r", "e">>, <<"a", "s">>,
     <<"a", "t">>, <<"b", "e">>, <<"b", "y">>, <<"f", "o", "r">>, <<"f", "r", "o", "m">>,
     <<"h", "a", "s">>, <<"h", "a", "v", "e">>, <<"i", "n">>, <<"i", "s">>,
     <<"i", "t">>, <<"i", "t", "s">>, <<"o", "f">>, <<"o", "n">>, <<"o", "r">>,
     <<"t", "h", "a", "t">>, <<"t", "h", "e">>, <<"t", "h", "i", "s">>,
     <<"t", "o">>, <<"w", "a", "s">>, <<"w", "e", "r", "e">>, <<"w", "i", "l", "l">>,
     <<"w", "i", "t", "h">>, <<"y", "o", "u">>, <<"y", "o", "u", "r">>}

NotStop(w) == w \notin STOP

RECURSIVE SumCount(_, _)
SumCount(c, q) == IF q = <<>> THEN 0 ELSE StrCount(c, Head(q)) + SumCount(c, Tail(q))

(* _score_chunk(query, chunk) *)
ScoreChunk(query, chunk) ==
    LET q == SelectSeq(Findall(LowerChars(query), <<>>, <<>>), NotStop)
    IN  IF q = <<>> THEN 0 ELSE SumCount(LowerChars(chunk), q)

(* The loop that packs blocks into the context: an entry with nothing to   *)
(* show is skipped, the first block that does not fit ends the loop        *)
RECURSIVE PackLoop(_, _, _, _)
PackLoop(items, used, max_chars, acc) ==
    IF items = <<>> THEN acc
    ELSE IF Head(items).skip THEN PackLoop(Tail(items), used, max_chars, acc)
    ELSE IF used + Head(items).len > max_chars THEN acc
    ELSE PackLoop(Tail(items), used + Head(items).len, max_chars,
                  Append(acc, Head(items).blk))

(* len() of the strings of the retriever's corpus, which the model holds   *)
(* as words                                                                *)
WordLen(w) == IF w \in {"alpha", "Alpha", "gamma"} THEN 5
              ELSE IF w = "Alpha " THEN 6
              ELSE IF w \in {"beta", "Beta"} THEN 4
              ELSE IF w = "" THEN 0 ELSE 1
RECURSIVE TextLen(_)
TextLen(text) ==
    IF text = <<>> THEN 0
    ELSE WordLen(Head(text)) + (IF Len(text) > 1 THEN 1 ELSE 0) + TextLen(Tail(text))

(* _sanitize_chunk_text on a text of one line: the line is dropped when it *)
(* begins with an instruction-like prefix                                  *)
InstructionPrefixes ==
    {<<"i", "g", "n", "o", "r", "e", " ", "p", "r", "e", "v", "i", "o", "u", "s", " ", "i", "n", "s", "t", "r", "u", "c", "t", "i", "o", "n", "s">>,
     <<"s", "y", "s", "t", "e", "m", ":">>, <<"a", "s", "s", "i", "s", "t", "a", "n", "t", ":">>}
StartsWith(s, p) == Len(s) >= Len(p) /\ SubSeq(s, 1, Len(p)) = p
SanitizeChunkText(text) ==
    IF \E p \in InstructionPrefixes : StartsWith(LowerChars(StripChars(text)), p)
    THEN <<>> ELSE StripChars(text)

EmptyString == [header |-> "", blocks |-> <<>>]

(* The entries of the local KB in the order of sorted(key=score,           *)
(* reverse=True), which keeps the order of entries of equal score          *)
RankLocal(query, kb) ==
    Let(OrderDesc(IntSeqToRat(List([i \in 1..Len(kb) |-> ScoreChunk(query, kb[i].text)]))),
        LAMBDA order : List([p \in 1..Len(kb) |-> kb[order[p]]]))

Positive(query, ranked) ==
    LET Scores(r) == ScoreChunk(query, r.text) > 0
    IN  SelectSeq(ranked, Scores)

(* rag.py, build_context_block, step 2: the fallback over KB_INDEX *)
RagFallback(query, top_k, max_chars, kb) ==
    Let(Prefix(Positive(query, RankLocal(query, kb)), Max(1, top_k)), LAMBDA ranked :
    IF ranked = <<>> THEN EmptyString
    ELSE [header |-> "Relevant context (local KB):",
          blocks |-> PackLoop(List([i \in 1..Len(ranked) |->
                                      [len |-> 15 + Len(ranked[i].source)
                                                  + Len(StripChars(ranked[i].text)),
                                       skip |-> FALSE,
                                       blk |-> ranked[i]]]),
                              0, max_chars, <<>>)])

(* rag.py, build_context_block(user_query): ctx is the string returned,    *)
(* raised whether Retriever(...) or search raised, kb what KB_INDEX holds  *)
(* afterwards                                                              *)
RagBuildContextBlock(query, top_k, max_chars, e, d, emb, KB_INDEX) ==
    Let(Construct(top_k, e, d), LAMBDA c :
    Let(IF c.err = "" THEN Search(c.retr, query.toks, top_k, emb) ELSE NoOutcome,
        LAMBDA s :
    Let2(c.err # "" \/ s.err # "",
         PackLoop(List([i \in 1..Len(s.result) |->
                          [len |-> 15 + TextLen(s.result[i].text)
                                      + (IF Strip(s.result[i].title) # ""
                                         THEN WordLen(Strip(s.result[i].title))
                                         ELSE WordLen(s.result[i].doc)),
                           skip |-> s.result[i].text = <<>>,
                           blk |-> s.result[i]]]),
                  0, max_chars, <<>>),
         LAMBDA raised, kbBlocks :
    IF ~raised /\ kbBlocks # <<>>
    THEN [err |-> "", raised |-> FALSE, path |-> "retriever", kb |-> KB_INDEX,
          ctx |-> [header |-> "Relevant context (KB):", blocks |-> kbBlocks]]
    ELSE
    Let(IF KB_INDEX = <<>> THEN d.kb_files ELSE KB_INDEX, LAMBDA kb :
        [err |-> "", raised |-> raised, path |-> "local", kb |-> kb,
         ctx |-> RagFallback(query.chars, top_k, max_chars, kb)]))))

StreamBuildContextBlockRetrying(query, top_k, max_chars, cached, unavailable, e, d, emb, KB_INDEX) ==
    Let(IF cached.built
        THEN [err |-> "", retr |-> cached]
        ELSE Construct(top_k, e, d), LAMBDA c :
    Let(IF c.retr.built THEN Search(c.retr, query.toks, c.retr.top_k, emb) ELSE NoOutcome,
        LAMBDA s :
    Let2(c.err # "" \/ s.err # "",
         IF s.err = "" THEN s.result ELSE <<>>,
         LAMBDA raised, hits :
    Let(IF hits = <<>> /\ KB_INDEX = <<>> THEN d.kb_files ELSE KB_INDEX, LAMBDA kb :
    Let(IF hits # <<>>
        THEN List([i \in 1..Len(hits) |->
                     [len |-> 25 + WordLen(hits[i].doc) + TextLen(hits[i].text)
                                 + (IF hits[i].title # "" THEN WordLen(hits[i].title)
                                    ELSE WordLen(hits[i].doc)),
                      skip |-> FALSE,
                      blk |-> hits[i]]])
        ELSE Let(RankLocal(query.chars, kb), LAMBDA ranked :
                 List([i \in 1..Len(ranked) |->
                         [len |-> 25 + 2 * Len(ranked[i].source)
                                     + Len(SanitizeChunkText(StripChars(ranked[i].text))),
                          skip |-> FALSE,
                          blk |-> ranked[i]]])),
        LAMBDA ranked :
        [err |-> "", raised |-> raised,
         path |-> IF hits # <<>> THEN "retriever" ELSE "local",
         kb |-> kb,
         RETRIEVER |-> c.retr,
         unavailable |-> c.err # "",
         ctx |-> IF Prefix(ranked, top_k) = <<>> THEN EmptyString
                 ELSE [header |-> "Relevant context (local KB):",
                       blocks |-> PackLoop(Prefix(ranked, top_k), 0, max_chars, <<>>)]])))))

(* chat_stream.py, build_context_block(user_query) with its get_retriever: *)
(* cached is RETRIEVER (unavailable: RETRIEVER = False)                    *)
StreamBuildContextBlock(query, top_k, max_chars, cached, unavailable, e, d, emb, KB_INDEX) ==
    Let(IF cached.built \/ unavailable
        THEN [err |-> "", retr |-> cached]
        ELSE Construct(top_k, e, d), LAMBDA c :
    Let(IF c.retr.built THEN Search(c.retr, query.toks, c.retr.top_k, emb) ELSE NoOutcome,
        LAMBDA s :
    Let2(c.err # "" \/ s.err # "",
         IF s.err = "" THEN s.result ELSE <<>>,
         LAMBDA raised, hits :
    Let(IF hits = <<>> /\ KB_INDEX = <<>> THEN d.kb_files ELSE KB_INDEX, LAMBDA kb :
    Let(IF hits # <<>>
        THEN List([i \in 1..Len(hits) |->
                     [len |-> 25 + WordLen(hits[i].doc) + TextLen(hits[i].text)
                                 + (IF hits[i].title # "" THEN WordLen(hits[i].title)
                                    ELSE WordLen(hits[i].doc)),
                      skip |-> FALSE,
                      blk |-> hits[i]]])
        ELSE Let(RankLocal(query.chars, kb), LAMBDA ranked :
                 List([i \in 1..Len(ranked) |->
                         [len |-> 25 + 2 * Len(ranked[i].source)
                                     + Len(SanitizeChunkText(StripChars(ranked[i].text))),
                          skip |-> FALSE,
                          blk |-> ranked[i]]])),
        LAMBDA ranked :
        [err |-> "", raised |-> raised,
         path |-> IF hits # <<>> THEN "retriever" ELSE "local",
         kb |-> kb,
         RETRIEVER |-> c.retr,
         unavailable |-> unavailable \/ c.err # "",
         ctx |-> IF Prefix(ranked, top_k) = <<>> THEN EmptyString
                 ELSE [header |-> "Relevant context (local KB):",
                       blocks |-> PackLoop(Prefix(ranked, top_k), 0, max_chars, <<>>)]])))))

(* The text files under the KB directory, chunked by _chunk_text *)
LocalChunks ==
    <<[text |-> <<"t", "h", "e", " ", "b", "e", "t", "a", " ", "b", "e", "t", "a">>,
       source |-> <<"n", ".", "t", "x", "t">>],
      [text |-> <<"A", "l", "p", "h", "a", "b", "e", "t", "a">>, source |-> <<"n", ".", "t", "x", "t">>],
      [text |-> <<"a", "l", "p", "h", "a">>, source |-> <<"m", ".", "m", "d">>]>>
LocalKbs == {<<>>, LocalChunks}

(* The same query string as search sees it (words) and as _score_chunk     *)
(* sees it (characters)                                                    *)
ContextQueries ==
    {[toks |-> <<"beta">>, chars |-> <<"b", "e", "t", "a">>],
     [toks |-> <<"gamma">>, chars |-> <<"g", "a", "m", "m", "a">>],
     [toks |-> <<"The", "beta">>,
      chars |-> <<"T", "h", "e", " ", "b", "e", "t", "a">>],
     [toks |-> <<"The">>, chars |-> <<"T", "h", "e">>]}

(* config["rag_top_k"], config["rag_max_chars"] *)
ConfigTopKs == 0..(MaxTopK - 1)
ConfigMaxChars == {40, 1800}

InitContext ==
    /\ \E files \in LocalKbs, present \in BOOLEAN :
        disk = [index |-> [present |-> present, vecs |-> IndexRows(<<ChunkB1, ChunkC1>>)],
                meta |-> [present |-> present, chunks |-> <<ChunkB1, ChunkC1>>],
                titles |-> NoTitles,
                kb_files |-> files]
    /\ env = EnvOf(<<>>)
    /\ retr = NoRetriever
    /\ loaded = {}
    /\ out = NoCall
    /\ memo = NoMemo
    /\ args = Idle
    /\ ret = Idle
    /\ site = NoSite
    /\ job = NoJob

(* rag.build_context_block(user_query) *)
RagBuildContext ==
    /\ out.op = "none"
    /\ \E query \in ContextQueries, top_k \in ConfigTopKs, max_chars \in ConfigMaxChars,
          emb \in EmbFaults :
        \E b \in {RagBuildContextBlock(query, top_k, max_chars, env, disk, emb,
                                       site.RAG_KB_INDEX)} :
            /\ out' = Outcome("rag.build_context_block", query.chars, top_k, emb, b.err, b)
            /\ site' = [site EXCEPT !.RAG_KB_INDEX = b.kb]
    /\ UNCHANGED <<disk, env, retr, loaded, memo, args, ret, job>>

(* chat_stream.build_context_block(user_query) *)
StreamBuildContext ==
    /\ out.op = "none"
    /\ \E query \in ContextQueries, top_k \in ConfigTopKs, max_chars \in ConfigMaxChars,
          emb \in EmbFaults :
        \E b \in {StreamBuildContextBlock(query, top_k, max_chars, site.RETRIEVER,
                                          site.unavailable, env, disk, emb,
                                          site.KB_INDEX)} :
            /\ out' = Outcome("chat_stream.build_context_block", query.chars, top_k,
                              emb, b.err, b)
            /\ site' = [site EXCEPT !.KB_INDEX = b.kb,
                                    !.RETRIEVER = b.RETRIEVER,
                                    !.unavailable = b.unavailable]
    /\ UNCHANGED <<disk, env, retr, loaded, memo, args, ret, job>>

NextContext == RagBuildContext \/ StreamBuildContext \/ Return

SpecContext == InitContext /\ [][NextContext]_vars

(* The index files between two requests of one chat_stream process: an     *)
(* ingestion run writes them, or they are removed                          *)
IndexFilesChange ==
    /\ out.op = "none"
    /\ \E present \in BOOLEAN, chunks \in {<<ChunkB1, ChunkC1>>, <<ChunkA1>>} :
        /\ disk' = [disk EXCEPT !.index = [present |-> present, vecs |-> IndexRows(chunks)],
                                !.meta = [present |-> present, chunks |-> chunks]]
        /\ disk' # disk
    /\ UNCHANGED <<env, retr, loaded, out, memo, args, ret, site, job>>

NextStream == StreamBuildContext \/ IndexFilesChange \/ Return

SpecStream == InitContext /\ [][NextStream]_vars

----------------------------------------------------------------------------
(* Reindexing while the call sites construct and search.  index_kb.main    *)
(* runs in a process of its own (app.py starts it with subprocess.run, an  *)
(* operator from a shell) and replaces the three files one after the       *)
(* other; a call site reads them one after the other in __init__.  Each    *)
(* file is replaced in one step: a reader that meets a file while it is    *)
(* being written fails to parse it and gets no instance.                   *)

MaxRuns == 3

(* The chunks ingestion run n finds in the documents directory; no two     *)
(* runs find the same list.                                                *)
PaletteSeq == <<ChunkA1, ChunkA2, ChunkB1, ChunkC1>>
RunCorpus(n) == [i \in 1..(1 + (n % 3)) |-> PaletteSeq[((i + n) % 4) + 1]]

InitReindex ==
    /\ disk = DiskOf(RunCorpus(1), [state |-> "ok", rows |-> TitleRows(RunCorpus(1))])
    /\ env = EnvOf(<<>>)
    /\ retr = NoRetriever
    /\ loaded = {}
    /\ out = NoCall
    /\ memo = NoMemo
    /\ args = Idle
    /\ ret = Idle
    /\ site = NoSite
    /\ job = NoJob

(* main up to "Persist": the documents are read, chunked and embedded *)
StartReindex ==
    /\ job.pc = "idle"
    /\ job.run < MaxRuns
    /\ job' = [pc |-> "built", run |-> job.run + 1]
    /\ UNCHANGED <<disk, env, retr, loaded, out, memo, args, ret, site>>

(* faiss.write_index(index, str(INDEX_PATH)) *)
WriteIndex ==
    /\ job.pc = "built"
    /\ disk' = [disk EXCEPT !.index = [present |-> TRUE,
                                       vecs |-> IndexRows(RunCorpus(job.run))]]
    /\ job' = [job EXCEPT !.pc = "index"]
    /\ UNCHANGED <<env, retr, loaded, out, memo, args, ret, site>>

(* META_PATH.write_text(json.dumps(meta)) *)
WriteMeta ==
    /\ job.pc = "index"
    /\ disk' = [disk EXCEPT !.meta = [present |-> TRUE, chunks |-> RunCorpus(job.run)]]
    /\ job' = [job EXCEPT !.pc = "meta"]
    /\ UNCHANGED <<env, retr, loaded, out, memo, args, ret, site>>

(* np.save(TITLES_NPY_PATH, title_vecs); main returns *)
WriteTitles ==
    /\ job.pc = "meta"
    /\ disk' = [disk EXCEPT !.titles = [state |-> "ok",
                                        rows |-> TitleRows(RunCorpus(job.run))]]
    /\ job' = [job EXCEPT !.pc = "idle"]
    /\ UNCHANGED <<env, retr, loaded, out, memo, args, ret, site>>

(* __init__ up to faiss.read_index: the files exist, the index is read *)
ReadIndex(view) ==
    IF view.pc = "idle" /\ FilesPresent(disk)
    THEN [pc |-> "index", index |-> disk.index]
    ELSE view

(* self.meta = json.loads(META_PATH.read_text("utf-8")) *)
ReadMeta(view) == [pc |-> "meta", index |-> view.index, meta |-> disk.meta]

(* The rest of __init__, which reads titles.npy: the instance built from   *)
(* the three files as they were when each was read                         *)
ReadTitles(top_k, view) ==
    Construct(top_k, env, [index |-> view.index, meta |-> view.meta, titles |-> disk.titles])

(* What search gives on an instance whose index may have more rows than    *)
(* its metadata: an offset past the metadata raises IndexError at          *)
(* self.meta[ci] or at self._texts[i], one of which every dense candidate  *)
(* reaches when the pools are no smaller than the corpus.                  *)
SearchOn(r, query, k_final, emb) ==
    IF /\ ~CorpusIsEmpty(r)
       /\ \E i \in Range(IndexSearch(r.index, EncodeQuery(query),
                                     Min(r.vec_k, Len(r.meta)))) : i > Len(r.meta)
    THEN [NoOutcome EXCEPT !.err = "IndexError"]
    ELSE Search(r, query, k_final, emb)

Issue(by) == [by |-> by, run |-> job.run, settled |-> job.pc = "idle"]

(* rag.get_retriever, called for each request: Retriever(top_k=...) begins *)
AppBegin ==
    /\ out.op = "none"
    /\ site.app.pc = "idle"
    /\ site.stream.pc = "idle"
    /\ site' = [site EXCEPT !.app = ReadIndex(site.app)]
    /\ retr' = NoRetriever
    /\ UNCHANGED <<disk, env, loaded, out, memo, args, ret, job>>

AppReadMeta ==
    /\ site.app.pc = "index"
    /\ site' = [site EXCEPT !.app = ReadMeta(site.app)]
    /\ UNCHANGED <<disk, env, retr, loaded, out, memo, args, ret, job>>

AppConstructed ==
    /\ site.app.pc = "meta"
    /\ \E top_k \in CtorTopKs :
        \E c \in {ReadTitles(top_k, site.app)} :
            /\ retr' = c.retr
            /\ loaded' = c.loaded
            /\ site' = [site EXCEPT !.app = NoView]
    /\ UNCHANGED <<disk, env, out, memo, args, ret, job>>

(* hits = retr.search(q, top_k=int(cs.config.get("rag_top_k", 4))) *)
AppSearch ==
    /\ out.op = "none"
    /\ retr.built
    /\ \E query \in Queries :
        \E res \in {SearchOn(retr, query, retr.top_k, 0)} :
            /\ out' = Outcome("search", query, retr.top_k, 0, res.err, res)
            /\ site' = [site EXCEPT !.issue = Issue("app")]
    /\ UNCHANGED <<disk, env, retr, loaded, memo, args, ret, job>>

(* chat_stream.get_retriever: constructs only while RETRIEVER is None *)
StreamBegin ==
    /\ out.op = "none"
    /\ site.app.pc = "idle"
    /\ site.stream.pc = "idle"
    /\ ~site.RETRIEVER.built
    /\ ~site.unavailable
    /\ site' = [site EXCEPT !.stream = ReadIndex(site.stream)]
    /\ UNCHANGED <<disk, env, retr, loaded, out, memo, args, ret, job>>

StreamReadMeta ==
    /\ site.stream.pc = "index"
    /\ site' = [site EXCEPT !.stream = ReadMeta(site.stream)]
    /\ UNCHANGED <<disk, env, retr, loaded, out, memo, args, ret, job>>

(* RETRIEVER = mod.Retriever(...), or RETRIEVER = False when it raised *)
StreamConstructed ==
    /\ site.stream.pc = "meta"
    /\ \E top_k \in CtorTopKs :
        \E c \in {ReadTitles(top_k, site.stream)} :
            site' = [site EXCEPT !.stream = NoView,
                                 !.RETRIEVER = c.retr,
                                 !.unavailable = c.err # ""]
    /\ UNCHANGED <<disk, env, retr, loaded, out, memo, args, ret, job>>

(* retr = get_retriever(); ranked = retr.search(user_query) *)
StreamSearch ==
    /\ out.op = "none"
    /\ site.RETRIEVER.built
    /\ \E query \in Queries :
        \E res \in {SearchOn(site.RETRIEVER, query, site.RETRIEVER.top_k, 0)} :
            /\ out' = Outcome("search", query, site.RETRIEVER.top_k, 0, res.err, res)
            /\ site' = [site EXCEPT !.issue = Issue("stream")]
    /\ UNCHANGED <<disk, env, retr, loaded, memo, args, ret, job>>

(* cmd_kb, "/kb reload": n = _index_kb() reads the text files again;       *)
(* RETRIEVER is not assigned                                               *)
KbReload ==
    /\ out.op = "none"
    /\ site' = [site EXCEPT !.KB_INDEX = LocalChunks]
    /\ UNCHANGED <<disk, env, retr, loaded, out, memo, args, ret, job>>

NextReindex ==
    \/ StartReindex \/ WriteIndex \/ WriteMeta \/ WriteTitles
    \/ AppBegin \/ AppReadMeta \/ AppConstructed \/ AppSearch
    \/ StreamBegin \/ StreamReadMeta \/ StreamConstructed \/ StreamSearch
    \/ KbReload \/ Return

SpecReindex == InitReindex /\ [][NextReindex]_vars

----------------------------------------------------------------------------
(* index_kb.main run on a documents directory.  A file is held as what     *)
(* load_text, _clean_ws, guess_title and chunk_text make of it: whether    *)
(* any text is left, its title, and its chunks (a blank chunk is <<>>).    *)
(* FileC holds the first chunk of FileA under another name; its one-word   *)
(* text gives no heading, so its title is its file name.                   *)

FileA == [doc |-> "A", text |-> TRUE, title |-> "Alpha",
          chunks |-> << <<"alpha">>, <<"alpha", "alpha">> >>]
FileB == [doc |-> "B", text |-> TRUE, title |-> "Beta",
          chunks |-> << <<"Beta", "beta">> >>]
FileC == [doc |-> "C", text |-> TRUE, title |-> "Gamma",
          chunks |-> << <<"alpha">> >>]
FileD == [doc |-> "D", text |-> FALSE, title |-> "", chunks |-> <<>>]
FileE == [doc |-> "E", text |-> TRUE, title |-> "Alpha",
          chunks |-> << <<>>, <<"gamma">> >>]

(* The files in the order of sorted(files) *)
FilePalette == <<FileA, FileB, FileC, FileD, FileE>>

(* sha1(ch_norm): equal for equal texts, different for different ones *)
Sha1(text) == text

NoKb == [index |-> [present |-> FALSE, vecs |-> <<>>],
         meta |-> [present |-> FALSE, chunks |-> <<>>],
         titles |-> NoTitles]

(* The inner loop of main over the chunks of one file *)
RECURSIVE IngestChunks(_, _, _, _)
IngestChunks(f, idx, st, chunks) ==
    IF idx > Len(chunks) THEN st
    ELSE LET ch_norm == chunks[idx]
             h == Sha1(ch_norm)
         IN  IF ch_norm = <<>> \/ h \in st.seen_chunk_hashes
             THEN IngestChunks(f, idx + 1, st, chunks)
             ELSE IngestChunks(f, idx + 1,
                      [st EXCEPT !.seen_chunk_hashes = @ \cup {h},
                                 !.meta = Append(@, [doc |-> f.doc,
                                                     title |-> f.title,
                                                     chunk_id |-> idx - 1,
                                                     text |-> ch_norm,
                                                     id |-> h])],
                      chunks)

(* The loop of main over sorted(files) *)
RECURSIVE IngestFiles(_, _)
IngestFiles(files, st) ==
    IF files = <<>> THEN st
    ELSE LET f == Head(files)
         IN  IF ~f.text THEN IngestFiles(Tail(files), st)
             ELSE IngestFiles(Tail(files),
                      IngestChunks(f, 1,
                          [st EXCEPT !.titles_ordered =
                              IF f.title \in Range(@) THEN @ ELSE Append(@, f.title)],
                          f.chunks))

(* main(): the KB files after the run on the files docs (a set of          *)
(* positions of FilePalette), d being the KB files before it               *)
Main(docs, d) ==
    LET files == List([p \in 1..Cardinality(docs) |-> FilePalette[SortedSeq(docs)[p]]])
        st == IngestFiles(files, [meta |-> <<>>, titles_ordered |-> <<>>,
                                  seen_chunk_hashes |-> {}])
    IN  IF files = <<>> THEN d
        ELSE IF st.meta = <<>> THEN d
        ELSE [index |-> [present |-> TRUE, vecs |-> IndexRows(st.meta)],
              meta |-> [present |-> TRUE, chunks |-> st.meta],
              titles |-> [state |-> "ok",
                          rows |-> List([i \in 1..Len(st.titles_ordered) |->
                                           ModelEncode(<<st.titles_ordered[i]>>)])]]

InitIngest ==
    /\ disk = NoKb
    /\ env = EnvOf(<<>>)
    /\ retr = NoRetriever
    /\ loaded = {}
    /\ out = NoCall
    /\ memo = NoMemo
    /\ args = Idle
    /\ ret = Idle
    /\ site = NoSite
    /\ job = [pc |-> "idle", docs |-> {}]

(* The user adds files to the documents directory or removes some *)
ChangeDocs ==
    /\ \E docs \in SUBSET (1..Len(FilePalette)) :
        /\ docs # job.docs
        /\ job' = [pc |-> "idle", docs |-> docs]
    /\ UNCHANGED <<disk, env, retr, loaded, out, memo, args, ret, site>>

(* python -m chat_core.index_kb: main() from its first line to its return *)
RunMain ==
    /\ job.pc = "idle"
    /\ disk' = Main(job.docs, disk)
    /\ job' = [job EXCEPT !.pc = "returned"]
    /\ UNCHANGED <<env, retr, loaded, out, memo, args, ret, site>>

NextIngest == ChangeDocs \/ RunMain

SpecIngest == InitIngest /\ [][NextIngest]_vars

----------------------------------------------------------------------------
(* Score fusion on its own: the normalisation, mix and sort of             *)
(* _hybrid_rank, applied to the raw scores of a candidate list without     *)
(* title boost, and applied again after the dense scores were multiplied   *)
(* by a positive constant.                                                 *)

(* v_norm, b_norm, fused and the order of ranked.sort(reverse=True) *)
FusionRank(alpha_hybrid, v_arr, b_arr) ==
    Let2(Minmax(v_arr), Minmax(b_arr), LAMBDA v_norm, b_norm :
    Let(Fused(alpha_hybrid, v_norm, b_norm), LAMBDA fused :
        [v_arr |-> v_arr, b_arr |-> b_arr, v_norm |-> v_norm, b_norm |-> b_norm,
         fused |-> fused, order |-> OrderDesc(fused)]))

(* The positive constants <<n, d>> dense scores are multiplied by *)
Factors == {<<2, 1>>, <<3, 1>>, <<1, 2>>}

Scaled(v_arr, f) == List([i \in 1..Len(v_arr) |-> (v_arr[i] * f[1]) \div f[2]])

Divisible(v_arr, f) == \A i \in 1..Len(v_arr) : (v_arr[i] * f[1]) % f[2] = 0

(* Raw scores of a candidate list, with spreads below, at and above the    *)
(* guard: dense scores may be negative inner products, a candidate absent  *)
(* from a set has the filled-in score 0.                                   *)
DenseScores == {-EPS, 0, 1, EPS}
LexicalScores == {0, 1, EPS}
Alphas == {Zero, <<1, 2>>, One}

InitFusion ==
    /\ disk = DiskOf(<<>>, NoTitles)
    /\ env = EnvOf(<<>>)
    /\ retr = NoRetriever
    /\ loaded = {}
    /\ out = NoCall
    /\ memo = NoMemo
    /\ \E n \in 1..MaxCands, f \in Factors, a \in Alphas :
         \E v \in [1..n -> DenseScores], b \in [1..n -> LexicalScores] :
             /\ Divisible(v, f)
             /\ args = [fn |-> "fusion", alpha_hybrid |-> a, v_arr |-> v,
                        b_arr |-> b, factor |-> f]
    /\ ret = Idle
    /\ site = NoSite
    /\ job = NoJob

(* The fusion of _hybrid_rank on the raw scores *)
Fuse ==
    /\ args.fn = "fusion"
    /\ ret.fn = "none"
    /\ \E r \in {FusionRank(args.alpha_hybrid, args.v_arr, args.b_arr)} :
           ret' = [fn |-> "fuse", before |-> r, after |-> r]
    /\ UNCHANGED <<disk, env, retr, loaded, out, memo, args, site, job>>

(* The same fusion once every raw dense score is multiplied by the factor *)
FuseScaled ==
    /\ args.fn = "fusion"
    /\ ret.fn = "fuse"
    /\ ret' = [fn |-> "scaled", before |-> ret.before,
               after |-> FusionRank(args.alpha_hybrid,
                                    Scaled(args.v_arr, args.factor), args.b_arr)]
    /\ UNCHANGED <<disk, env, retr, loaded, out, memo, args, site, job>>

NextFusion == Fuse \/ FuseScaled

SpecFusion == InitFusion /\ [][NextFusion]_vars

----------------------------------------------------------------------------
(* Properties *)

SearchDone == out.op = "search" /\ out.err = ""
Result == out.res.result
Union == out.res.vec_ids \cup out.res.bm25_ids

(* C1: a search returns at most top_k results, and exactly top_k whenever   *)
(* the candidate union has at least top_k members, for every mmr_pool and  *)
(* rerank_from and for top_k = 0 too.                                      *)
C1_AtMostTopK ==
    SearchDone =>
        /\ Len(Result) <= out.top_k
        /\ (Cardinality(Union) >= out.top_k => Len(Result) = out.top_k)

(* The number of results the code returns:                                 *)
(* min(max(1, top_k), |union|, max(mmr_pool, rerank_from)).                *)
ResultCount ==
    SearchDone =>
        Len(Result) = Min(Max(1, out.top_k), Min(Cardinality(Union), PoolCut(retr)))

(* C2: on the corpus of two chunks of document A, the dense    *)
(* nearest neighbours of the query, and one chunk of document B, the only  *)
(* lexical match, the first result is a chunk of A when alpha_hybrid is 1  *)
(* and the B chunk when alpha_hybrid is 0.                                 *)
C2_TopResultFollowsAlpha ==
    (/\ SearchDone
     /\ Len(retr.meta) = 3
     /\ Range(retr.meta) = {ChunkA1, ChunkA2, ChunkB1}
     /\ out.query = <<"beta">>
     /\ out.top_k >= 1)
    => /\ (retr.alpha_hybrid = One => Result[1].doc = "A")
       /\ (retr.alpha_hybrid = Zero => Result[1].id = "b1")

(* C3: a search with the arguments of an earlier search on the same        *)
(* instance returns what the earlier one returned, whatever was searched   *)
(* in between.                                                             *)
C3_Idempotent ==
    (memo.call.op = "search" /\ SameCall(out, memo.call.query, memo.call.top_k, memo.call.emb))
    => /\ out.err = memo.call.err
       /\ Result = memo.call.res.result

C3_Witness ==
    /\ memo.call.op = "search"
    /\ memo.between
    /\ SameCall(out, memo.call.query, memo.call.top_k, memo.call.emb)
    /\ Len(Result) >= 2
    /\ Result[1].score_title # Zero

(* The first max(mmr_pool, rerank_from) offsets of the fused ranking *)
Cut == [p \in 1..Min(PoolCut(retr), Len(out.res.ranked)) |-> out.res.ranked[p].idx]

WithoutReranker == Search([retr EXCEPT !.reranker = "None"], out.query, out.top_k, 0)

(* C4: with a reranker that raises on every call, search                   *)
(* raises nothing and returns the list of the same retriever without       *)
(* reranker, top_k results when the pool has at least top_k; the rerank    *)
(* stage returns its input order.                                          *)
C4_RerankerFailureTopK ==
    (out.op = "search" /\ out.emb = 0 /\ retr.reranker = "raises")
    => /\ out.err = ""
       /\ Result = WithoutReranker.result
       /\ out.res.pool = Cut
       /\ (Len(out.res.pool) >= out.top_k => Len(Result) = out.top_k)

(* What the code does with a reranker that raises on every call: search    *)
(* raises nothing and returns the list of the same retriever without       *)
(* reranker, min(max(1, top_k), pool size) results; the rerank stage       *)
(* returns its input order.                                                *)
RerankerFailure ==
    (out.op = "search" /\ out.emb = 0 /\ retr.reranker = "raises")
    => /\ out.err = ""
       /\ Result = WithoutReranker.result
       /\ out.res.pool = Cut
       /\ Len(Result) = Min(Max(1, out.top_k), Len(out.res.pool))

(* C5: a search whose candidate union is empty returns the empty list and  *)
(* raises nothing: on a corpus without chunks, where the query is not even *)
(* encoded, and on a corpus with chunks when the dense and the sparse set  *)
(* are both empty; every returned chunk is a member of the union.          *)
C5_EmptyUnion ==
    out.op = "search" =>
        /\ (Len(retr.meta) = 0 =>
               out.err = "" /\ Result = <<>> /\ out.res.encodes = 0)
        /\ ((Len(retr.meta) > 0 /\ out.emb # 1 /\ Union = {}) =>
               out.err = "" /\ Result = <<>>)
        /\ \A p \in 1..Len(Result) :
               /\ out.res.final_ids[p] \in Union
               /\ Result[p].id = retr.meta[out.res.final_ids[p]].id

C5_Witness ==
    /\ SearchDone
    /\ Len(retr.meta) >= 2
    /\ out.res.encodes = 1
    /\ Union = {}
    /\ Result = <<>>

(* The distinct non-empty titles of the chunk metadata on disk *)
DistinctTitles == {Strip(disk.meta.chunks[i].title) : i \in 1..Len(disk.meta.chunks)} \ {""}

TitleTableUnusable ==
    \/ disk.titles.state # "ok"
    \/ Len(disk.titles.rows) # Cardinality(DistinctTitles)

(* C6: with a title table that is absent, unreadable or of a row count     *)
(* other than the number of distinct titles, construction succeeds with    *)
(* use_titles False, and every search completes with title boost 0 and     *)
(* total score = fused score in every result.                              *)
C6_TitleMismatch ==
    (FilesPresent(disk) /\ TitleTableUnusable)
    => /\ (out.op = "construct" => out.err = "" /\ retr.built)
       /\ (retr.built => ~retr.use_titles)
       /\ ((out.op = "search" /\ out.emb = 0) =>
              /\ out.err = ""
              /\ \A p \in 1..Len(Result) :
                     /\ Result[p].score_title = Zero
                     /\ Result[p].score_total = Result[p].score_hybrid)

C6_Witness ==
    /\ disk.titles.state = "ok"
    /\ Len(disk.titles.rows) > Cardinality(DistinctTitles)
    /\ "RAG_USE_TITLES" \in DOMAIN env.vars
    /\ env.vars["RAG_USE_TITLES"] = "1"
    /\ SearchDone
    /\ Len(Result) >= 2
    /\ Result[1].title # ""

(* C7: with the index file or the metadata file absent, construction fails *)
(* with the missing-files error before anything is loaded, and there is no *)
(* instance to search.                                                     *)
C7_MissingFiles ==
    ~(disk.index.present /\ disk.meta.present)
    => /\ (out.op = "construct" => out.err = "FileNotFoundError")
       /\ loaded = {}
       /\ ~retr.built
       /\ out.op # "search"

C7_Witness ==
    /\ out.op = "construct"
    /\ out.err = "FileNotFoundError"
    /\ disk.index.present
    /\ ~disk.meta.present

(* C8: on a corpus with chunks, when the embedding model raises at the     *)
(* first or the second encoding of the query, the search ends with that    *)
(* failure and gives its caller no result.                                 *)
C8_EmbeddingFailurePropagates ==
    (/\ out.op = "search"
     /\ Len(retr.meta) > 0
     /\ out.emb \in {1, 2}
     /\ out.res.encodes >= out.emb)
    => /\ out.err = "EmbeddingFailure"
       /\ Result = <<>>
       /\ out.res.final_ids = <<>>

C8_Witness ==
    /\ out.op = "search"
    /\ out.emb = 2
    /\ out.err = "EmbeddingFailure"
    /\ Len(out.res.ranked) >= 2
    /\ Result = <<>>

Flat(arr) == \A i, j \in 1..Len(arr) : arr[i] = arr[j]

Spread(arr) == SeqMax(arr) - SeqMin(arr)

(* C9: when every candidate has the same raw lexical score, the filled-in  *)
(* 0 included, lexical_normalized is 0 for every candidate and fused is    *)
(* alpha times vec_normalized for every candidate; no normalised score has *)
(* a zero denominator.                                                     *)
C9_DegenerateAxis ==
    ret.fn = "fuse" =>
        LET r == ret.before
        IN  /\ \A j \in 1..Len(r.b_arr) : r.v_norm[j][2] > 0 /\ r.b_norm[j][2] > 0
            /\ Flat(r.b_arr) =>
                  \A j \in 1..Len(r.b_arr) :
                      /\ r.b_norm[j] = Zero
                      /\ r.fused[j] = RMul(args.alpha_hybrid, r.v_norm[j])

C9_Witness ==
    /\ ret.fn = "fuse"
    /\ Len(args.b_arr) = 3
    /\ Flat(args.b_arr)
    /\ args.b_arr[1] # 0
    /\ args.alpha_hybrid = <<1, 2>>
    /\ ret.before.fused[2] = <<1, 4>>

(* C10, as claimed: multiplying every raw dense score by the same positive *)
(* constant leaves the order of the candidates by fused score unchanged,   *)
(* for every alpha and every lexical score vector.                         *)
C10_ScaleInvariant ==
    ret.fn = "scaled" => ret.after.order = ret.before.order

(* C10, amended: multiplying every raw dense score by the same positive    *)
(* constant leaves the order of the candidates by fused score unchanged    *)
(* when alpha = 0, and, as long as the spread of the dense scores is at    *)
(* least the guard before and after, when alpha = 1 or the lexical scores  *)
(* are all equal.                                                          *)
C10_ScaleInvariantOneAxis ==
    ret.fn = "scaled" =>
        ((\/ args.alpha_hybrid = Zero
          \/ /\ Spread(ret.before.v_arr) >= EPS
             /\ Spread(ret.after.v_arr) >= EPS
             /\ (args.alpha_hybrid = One \/ Flat(args.b_arr)))
         => ret.after.order = ret.before.order)

C10_Witness ==
    /\ ret.fn = "scaled"
    /\ args.alpha_hybrid = One
    /\ Len(args.v_arr) = 3
    /\ ~Flat(args.b_arr)
    /\ Spread(ret.before.v_arr) >= EPS
    /\ ret.after.v_arr # ret.before.v_arr
    /\ ret.after.v_norm # ret.before.v_norm
    /\ ret.before.order = <<3, 1, 2>>
    /\ ret.after.order = <<3, 1, 2>>

(* Query similarity of the pool members of the last search, in pool order *)
PoolSims ==
    [i \in 1..Len(out.res.pool) |->
        <<Cos(ModelEncode(retr.texts[out.res.pool[i]]), EncodeQuery(out.query)), 1>>]

(* The first k pool members of a plain sort by query similarity, descending *)
TopKBySim(k) ==
    LET order == OrderDesc(PoolSims)
    IN  [p \in 1..Min(k, Len(out.res.pool)) |-> out.res.pool[order[p]]]

(* C11: with mmr_lambda = 1 the selection is the k pool members of highest *)
(* query similarity, in descending order of similarity, ties in pool       *)
(* order: what a plain top-k sort by similarity gives.                     *)
C11_LambdaOneIsTopK ==
    (SearchDone /\ retr.mmr_lambda = One)
    => out.res.final_ids = TopKBySim(out.top_k)

(* What the code selects with mmr_lambda = 1: the plain top-k by           *)
(* similarity for the k that _mmr clamps to at least 1.                    *)
LambdaOneIsTopClampedK ==
    (SearchDone /\ retr.mmr_lambda = One)
    => out.res.final_ids = TopKBySim(Max(1, out.top_k))

(* The embedding of a chunk offset, and the largest similarity of a chunk  *)
(* to the first n selected chunks of the last search                       *)
VecOf(idx) == ModelEncode(retr.texts[idx])

MaxSimToSelected(idx, n) ==
    LET sims == {Cos(VecOf(idx), VecOf(out.res.final_ids[q])) : q \in 1..n}
    IN  CHOOSE x \in sims : \A y \in sims : y <= x

Unselected(n) == Range(out.res.pool) \ {out.res.final_ids[q] : q \in 1..n}

DistinctEmbeddings ==
    \A i, j \in 1..Len(out.res.pool) :
        i # j => VecOf(out.res.pool[i]) # VecOf(out.res.pool[j])

(* C12: with mmr_lambda = 0 and a pool of at least 2 candidates with       *)
(* distinct embeddings, every pick after the first is not the unselected   *)
(* candidate most similar to the selected ones while an unselected         *)
(* candidate of strictly lower largest similarity to them remains; the     *)
(* pick is one of least largest similarity.                                *)
C12_LambdaZeroAvoidsDuplicates ==
    (SearchDone /\ retr.mmr_lambda = Zero /\ Len(out.res.pool) >= 2 /\ DistinctEmbeddings)
    => \A p \in 2..Len(out.res.final_ids) :
           \A j \in Unselected(p - 1) :
               MaxSimToSelected(out.res.final_ids[p], p - 1) <= MaxSimToSelected(j, p - 1)

C12_Witness ==
    /\ SearchDone
    /\ retr.mmr_lambda = Zero
    /\ Len(out.res.pool) = 3
    /\ DistinctEmbeddings
    /\ Len(out.res.final_ids) = 2
    /\ out.res.final_ids[1] = out.res.pool[1]
    /\ out.res.final_ids[2] = out.res.pool[3]
    /\ MaxSimToSelected(out.res.pool[2], 1) > MaxSimToSelected(out.res.pool[3], 1)

(* C13: no step after construction changes the instance: neither a search *)
(* (metadata, texts, title table, lexical index and knobs stay as built)   *)
(* nor a caller's assignment to a field of a returned record.              *)
C13_SearchWritesNothing == [][retr.built => retr' = retr]_vars

C13_Witness ==
    /\ out.op = "edited"
    /\ Len(Result) >= 2
    /\ Result[2].text = <<"edited">>
    /\ retr.meta[out.res.final_ids[2]].text # <<"edited">>
    /\ retr.use_titles
    /\ retr.reranker = "ok"

(* The instances the call sites hold *)
Instances == {r \in {retr, site.RETRIEVER} : r.built}

(* Index and metadata of r were written by one ingestion run *)
SameRun(r) ==
    \E n \in 1..MaxRuns : r.meta = RunCorpus(n) /\ r.index = IndexRows(RunCorpus(n))

(* C14: every Retriever constructed while reindex runs interleave with the *)
(* constructions holds an index and metadata of the same run, with the     *)
(* same number of rows.                                                    *)
C14_NeverHalfReplaced ==
    \A r \in Instances : SameRun(r) /\ Len(r.index) = Len(r.meta)

(* The instance that answered the search whose outcome is pending *)
Answering == IF site.issue.by = "app" THEN retr ELSE site.RETRIEVER

(* C15: a search issued after a reindex has completed (none running) is    *)
(* answered by an instance built from the artifacts of that reindex.       *)
C15_AnsweredFromNewArtifacts ==
    (out.op = "search" /\ site.issue.settled /\ site.issue.run >= 2)
    => /\ Answering.meta = RunCorpus(site.issue.run)
       /\ Answering.index = IndexRows(RunCorpus(site.issue.run))

(* The blocks of the context a build_context_block returned *)
Blocks == out.res.ctx.blocks

(* C16: when Retriever(...) or search raised, build_context_block does not *)
(* raise and returns a context of chunks of the local KB that score more   *)
(* than 0 for the query, in the order of the term-frequency ranking, or    *)
(* the empty string when no chunk scores more than 0.                      *)
C16_FallbackContext ==
    (out.op \in {"rag.build_context_block", "chat_stream.build_context_block"}
        /\ out.res.raised)
    => /\ out.err = ""
       /\ out.res.path = "local"
       /\ \A i \in 1..Len(Blocks) : ScoreChunk(out.query, Blocks[i].text) > 0
       /\ \A i, j \in 1..Len(Blocks) :
            i < j => ScoreChunk(out.query, Blocks[i].text) >= ScoreChunk(out.query, Blocks[j].text)
       /\ (\A i \in 1..Len(out.res.kb) : ScoreChunk(out.query, out.res.kb[i].text) = 0)
            => out.res.ctx = EmptyString

(* What holds of the two call sites: rag.py's fallback shows only chunks   *)
(* that score more than 0                                                  *)
RagFallbackContext ==
    (out.op = "rag.build_context_block" /\ out.res.raised)
    => /\ out.err = ""
       /\ out.res.path = "local"
       /\ \A i \in 1..Len(Blocks) : ScoreChunk(out.query, Blocks[i].text) > 0
       /\ \A i, j \in 1..Len(Blocks) :
            i < j => ScoreChunk(out.query, Blocks[i].text) >= ScoreChunk(out.query, Blocks[j].text)
       /\ (\A i \in 1..Len(out.res.kb) : ScoreChunk(out.query, out.res.kb[i].text) = 0)
            => out.res.ctx = EmptyString

(* Raw scores of the candidates of the last search, written out: the     *)
(* inner product with the query for a member of the dense set, the        *)
(* lexical score for a member of the sparse set, 0 otherwise              *)
Cands == out.res.cand_list
RawDense ==
    [j \in 1..Len(Cands) |->
        IF Cands[j] \in out.res.vec_ids
        THEN Cos(retr.index[Cands[j]], EncodeQuery(out.query)) ELSE 0]
RawLexical ==
    [j \in 1..Len(Cands) |->
        IF Cands[j] \in out.res.bm25_ids
        THEN 2 * SumCounts(LowerSplit(out.query), LowerSplit(retr.texts[Cands[j]]))
        ELSE 0]
RankedOf(idx) == out.res.ranked[CHOOSE p \in 1..Len(out.res.ranked) : out.res.ranked[p].idx = idx]

(* C17: the candidates are the union of the dense and the sparse set, each *)
(* chunk once (by offset), and the normalised scores of every candidate    *)
(* are those of raw score vectors in which a chunk absent from a set has   *)
(* the raw score 0 on that axis.                                           *)
C17_CandidateUnion ==
    SearchDone =>
        /\ Range(Cands) = Union
        /\ \A i, j \in 1..Len(Cands) : i < j => Cands[i] < Cands[j]
        /\ Len(out.res.ranked) = Len(Cands)
        /\ \A j \in 1..Len(Cands) :
            /\ RankedOf(Cands[j]).v = Minmax(RawDense)[j]
            /\ RankedOf(Cands[j]).b = Minmax(RawLexical)[j]

C17_Witness ==
    /\ SearchDone
    /\ Len(retr.meta) = 3
    /\ Len(Cands) = 2
    /\ out.res.vec_ids \ out.res.bm25_ids # {}
    /\ out.res.bm25_ids \ out.res.vec_ids # {}
    /\ RankedOf(Cands[1]).v # RankedOf(Cands[2]).v
    /\ RankedOf(Cands[1]).b # RankedOf(Cands[2]).b
    /\ Len(Result) >= 1

(* The candidates in the order of their raw dense scores, largest first,   *)
(* equal scores in candidate order                                         *)
DenseOrder ==
    LET order == OrderDesc(IntSeqToRat(RawDense))
    IN  [p \in 1..Len(Cands) |-> Cands[order[p]]]
FusedOrder == [p \in 1..Len(out.res.ranked) |-> out.res.ranked[p].idx]
NoLexicalScorer == out.op = "search" /\ ~retr.bm25 /\ out.emb = 0

(* C18: without a lexical scorer the sparse set is empty, search does not  *)
(* fail, the candidates are the dense set, the normalised lexical score of *)
(* every candidate is 0, and without title boost the fused ranking is in   *)
(* the order of the raw dense scores.                                      *)
C18_DegradesToDense ==
    NoLexicalScorer =>
        /\ out.err = ""
        /\ out.res.bm25_ids = {}
        /\ Range(Cands) = out.res.vec_ids
        /\ \A p \in 1..Len(out.res.ranked) : out.res.ranked[p].b = Zero
        /\ (~retr.use_titles => FusedOrder = DenseOrder)

(* What the code gives: the dense order only while the dense axis has a    *)
(* positive weight                                                         *)
DegradesToDenseUnderPositiveAlpha ==
    NoLexicalScorer =>
        /\ out.err = ""
        /\ out.res.bm25_ids = {}
        /\ Range(Cands) = out.res.vec_ids
        /\ \A p \in 1..Len(out.res.ranked) : out.res.ranked[p].b = Zero
        /\ ((~retr.use_titles /\ RLt(Zero, retr.alpha_hybrid)) => FusedOrder = DenseOrder)

(* The list _hybrid_rank returned to the last search *)
Ranked == out.res.ranked

(* C19: the fusion stage returns its candidates in non-increasing          *)
(* total_score, candidates of equal total_score in ascending chunk offset, *)
(* the order of the candidate list.                                        *)
C19_SortedByTotal ==
    out.op = "search" =>
        \A p, q \in 1..Len(Ranked) :
            p < q => \/ RLt(Ranked[q].tot, Ranked[p].tot)
                     \/ (Ranked[q].tot = Ranked[p].tot /\ Ranked[p].idx < Ranked[q].idx)

C19_Witness ==
    /\ SearchDone
    /\ Len(Ranked) = 3
    /\ RLt(Ranked[2].tot, Ranked[1].tot)
    /\ Ranked[2].tot = Ranked[3].tot
    /\ Ranked[1].idx = 3
    /\ Ranked[2].idx = 1
    /\ Ranked[3].idx = 2

(* The title similarity map of the last search, written out: the rows of  *)
(* the title table kept (all of them, or the title_k most similar to the   *)
(* query), and the min-max normalisation of a kept row among the kept rows *)
TitlesOn == retr.use_titles /\ ~retr.titles_vecs_none /\ Len(retr.titles_list) > 0
TitleRawSim(i) == Cos(retr.titles_vecs[i], EncodeQuery(out.query))
KeptRows ==
    IF ~TitlesOn THEN {}
    ELSE IF retr.title_k # 0 /\ retr.title_k < Len(retr.titles_vecs)
    THEN {i \in 1..Len(retr.titles_vecs) :
            Cardinality({j \in 1..Len(retr.titles_vecs) :
                            \/ TitleRawSim(j) > TitleRawSim(i)
                            \/ (TitleRawSim(j) = TitleRawSim(i) /\ j < i)}) < retr.title_k}
    ELSE 1..Len(retr.titles_vecs)
KeptNorm(i) ==
    LET mn == CHOOSE x \in {TitleRawSim(j) : j \in KeptRows} :
                  \A j \in KeptRows : x <= TitleRawSim(j)
        mx == CHOOSE x \in {TitleRawSim(j) : j \in KeptRows} :
                  \A j \in KeptRows : x >= TitleRawSim(j)
    IN  IF mx - mn < EPS THEN Zero ELSE Rat(TitleRawSim(i) - mn, mx - mn + EPS)
TitleOf(idx) == Strip(retr.meta[idx].title)
InMap(idx) == \E i \in KeptRows : retr.titles_list[i] = TitleOf(idx)
RowOf(idx) == CHOOSE i \in KeptRows : retr.titles_list[i] = TitleOf(idx)

(* C20: total_score = fused + title_boost for every candidate, where       *)
(* title_boost is the weight times the normalised similarity of the        *)
(* candidate's title when the title is in the map of kept titles, and 0    *)
(* when the title is empty or not in that map.                             *)
C20_TitleBoost ==
    out.op = "search" =>
        \A p \in 1..Len(Ranked) :
            /\ Ranked[p].tot = RAdd(Ranked[p].h, Ranked[p].t)
            /\ Ranked[p].t =
                 IF TitleOf(Ranked[p].idx) # "" /\ InMap(Ranked[p].idx)
                 THEN RMul(KeptNorm(RowOf(Ranked[p].idx)), retr.title_boost)
                 ELSE Zero

C20_Witness ==
    /\ SearchDone
    /\ TitlesOn
    /\ Len(Ranked) = 3
    /\ \E p \in 1..3 : RLt(Zero, Ranked[p].t) /\ Ranked[p].tot # Ranked[p].h
    /\ \E p \in 1..3 : TitleOf(Ranked[p].idx) = "" /\ Ranked[p].t = Zero
    /\ \E p \in 1..3 : /\ TitleOf(Ranked[p].idx) # ""
                       /\ InMap(Ranked[p].idx)
                       /\ Ranked[p].t = Zero

(* The pool handed to _mmr by the last search, and what _mmr selected *)
Pool == out.res.pool
Selected == out.res.final_ids

(* C21: on a non-empty pool the MMR selector returns exactly               *)
(* min(top_k, pool size) chunks for every top_k, and on an empty pool it   *)
(* returns the empty selection without error.                              *)
C21_MmrSelectsMinTopKPool ==
    SearchDone =>
        /\ (Len(Pool) > 0 => Len(Selected) = Min(out.top_k, Len(Pool)))
        /\ (Len(Pool) = 0 => Selected = <<>>)

(* What the code selects: k is raised to 1 on a non-empty pool *)
MmrSelectsClampedK ==
    SearchDone =>
        /\ (Len(Pool) > 0 => Len(Selected) = Min(Max(1, out.top_k), Len(Pool)))
        /\ (Len(Pool) = 0 => Selected = <<>>)

(* Query similarity of a pool member, and whether none is more similar *)
SimOf(idx) == Cos(VecOf(idx), EncodeQuery(out.query))
MostSimilar(idx) == \A i \in 1..Len(Pool) : SimOf(Pool[i]) <= SimOf(idx)

(* C22: for every mmr_lambda in [0, 1] the first chunk MMR picks is a pool *)
(* member of maximum query similarity.                                     *)
C22_FirstPickMostSimilar ==
    (SearchDone /\ Len(Selected) >= 1
        /\ RLe(Zero, retr.mmr_lambda) /\ RLe(retr.mmr_lambda, One))
    => MostSimilar(Selected[1])

(* For mmr_lambda in (0, 1] the first pick is a pool member of maximum     *)
(* query similarity; for mmr_lambda = 0 every first-round score is 0 and   *)
(* the first pick is the first pool member.                                *)
C22_FirstPickMostSimilarPositiveLambda ==
    (SearchDone /\ Len(Selected) >= 1)
    => /\ (RLt(Zero, retr.mmr_lambda) /\ RLe(retr.mmr_lambda, One))
            => MostSimilar(Selected[1])
       /\ retr.mmr_lambda = Zero => Selected[1] = Pool[1]

C22_Witness ==
    /\ SearchDone
    /\ Len(Pool) = 3
    /\ RLt(Zero, retr.mmr_lambda)
    /\ RLt(retr.mmr_lambda, One)
    /\ Selected[1] = Pool[3]
    /\ MostSimilar(Selected[1])
    /\ ~MostSimilar(Pool[1])

(* The candidates the reranker of the last search was called with (Cut),  *)
(* their predicted scores, and whether the pool is Cut in descending       *)
(* predicted score                                                         *)
Predicted(idx) == RerankerPredict(out.query, retr.texts[idx])
ReorderedByPrediction ==
    /\ Range(Pool) = Range(Cut)
    /\ Len(Pool) = Len(Cut)
    /\ \A p, q \in 1..Len(Pool) : p < q => Predicted(Pool[p]) >= Predicted(Pool[q])
Reranked == SearchDone /\ retr.reranker = "ok" /\ Len(Cut) > 0

(* C23: the reranker is given the top rerank_from candidates of the fused  *)
(* ranking and no more, for every mmr_pool and rerank_from, and when it    *)
(* succeeds the pool is those candidates in descending predicted score.    *)
C23_RerankerGetsRerankFrom ==
    Reranked =>
        /\ Len(Cut) = Min(retr.rerank_from, Len(Ranked))
        /\ \A p \in 1..Len(Cut) : Cut[p] = Ranked[p].idx
        /\ ReorderedByPrediction

(* What the code hands to the reranker: the top max(mmr_pool, rerank_from) *)
RerankerGetsPoolCut ==
    Reranked =>
        /\ Len(Cut) = Min(Max(retr.mmr_pool, retr.rerank_from), Len(Ranked))
        /\ \A p \in 1..Len(Cut) : Cut[p] = Ranked[p].idx
        /\ ReorderedByPrediction

(* The normalised lexical scores, by chunk, that the instance gives the    *)
(* bare words of a query                                                   *)
Bare(query) ==
    [i \in 1..Len(query) |->
        CASE query[i] = "beta?" -> "beta"
          [] query[i] = "alpha," -> "alpha"
          [] OTHER -> query[i]]
LexicalOf(ranked) == {<<ranked[p].idx, ranked[p].b>> : p \in 1..Len(ranked)}

(* C24: the sparse path lower-cases the query and extracts its             *)
(* alphanumeric tokens: a query word with punctuation attached scores the  *)
(* chunks as the bare word does.                                           *)
C24_PunctuationIgnored ==
    SearchDone =>
        LexicalOf(Ranked) = LexicalOf(HybridRank(retr, Bare(out.query), 0).ranked)

(* What the code does: the query is lower-cased and split at whitespace,   *)
(* so capitals do not matter and punctuation does                          *)
CapitalsIgnored ==
    SearchDone =>
        LexicalOf(Ranked) = LexicalOf(HybridRank(retr, LowerSplit(out.query), 0).ranked)

Ingested == job.pc = "returned"
PresentFiles == {FilePalette[p] : p \in job.docs}

(* C25: after an ingestion run the persisted title table has one row per   *)
(* distinct title of the persisted metadata, row i being the embedding of  *)
(* the i-th distinct title in first-appearance order, also when every      *)
(* chunk of some file was dropped as a duplicate.                          *)
C25_TitleTableAlignedWithMeta ==
    (Ingested /\ disk.meta.present) =>
        disk.titles.rows = TitleRows(disk.meta.chunks)

(* What the code keeps: the table agrees with the metadata a run wrote     *)
(* when every file the run read kept a chunk                               *)
EveryFileKeptAChunk ==
    \A f \in PresentFiles :
        f.text => \E i \in 1..Len(disk.meta.chunks) : disk.meta.chunks[i].doc = f.doc
TitleTableAlignedWhenNoFileDropped ==
    (Ingested /\ Main(job.docs, NoKb).meta.present /\ EveryFileKeptAChunk) =>
        disk.titles.rows = TitleRows(disk.meta.chunks)

(* C26: after main returns, the persisted corpus describes exactly the     *)
(* documents present at that run, also when the run finds no document or   *)
(* extracts no text: no chunk of an earlier run remains.                   *)
C26_ReindexReplacesWholesale ==
    Ingested =>
        /\ disk.meta.chunks = Main(job.docs, NoKb).meta.chunks
        /\ disk.index.vecs = IndexRows(disk.meta.chunks)
        /\ \A i \in 1..Len(disk.meta.chunks) :
               \E f \in PresentFiles : f.doc = disk.meta.chunks[i].doc

(* What the code does: a run that extracts a chunk replaces the three      *)
(* files together; a run that extracts none leaves them as they were       *)
ReplacedWhenAChunkIsExtracted ==
    (Ingested /\ Main(job.docs, NoKb).meta.present) =>
        /\ disk = Main(job.docs, NoKb)
        /\ disk.index.vecs = IndexRows(disk.meta.chunks)
        /\ \A i \in 1..Len(disk.meta.chunks) :
               \E f \in PresentFiles : f.doc = disk.meta.chunks[i].doc

Returned == out.res.result

(* C27: a search result holds no chunk twice, every returned chunk is one  *)
(* of the first max(mmr_pool, rerank_from) entries of the fused ranking,   *)
(* and so the result is never longer than max(mmr_pool, rerank_from), also *)
(* when the top_k passed to search exceeds the constructor's.              *)
C27_ResultWithinPoolNoRepeats ==
    SearchDone =>
        /\ Len(Returned) = Len(Selected)
        /\ \A p, q \in 1..Len(Selected) : p # q => Selected[p] # Selected[q]
        /\ \A p, q \in 1..Len(Returned) : p # q => Returned[p].id # Returned[q].id
        /\ Range(Selected) \subseteq Range(Cut)
        /\ Len(Returned) <= PoolCut(retr)

C27_Witness ==
    /\ SearchDone
    /\ out.top_k > retr.top_k
    /\ out.top_k > PoolCut(retr)
    /\ Len(Ranked) > PoolCut(retr)
    /\ Len(Returned) = PoolCut(retr)
    /\ Len(Returned) >= 2

InUnit(x) == RLe(Zero, x) /\ RLe(x, One)
ScoresInRange(m) ==
    /\ InUnit(m.score_vec_norm)
    /\ InUnit(m.score_bm25_norm)
    /\ InUnit(m.score_hybrid)
    /\ RLe(Zero, m.score_title) /\ RLe(m.score_title, retr.title_boost)
    /\ m.score_total = RAdd(m.score_hybrid, m.score_title)
ScoresOfFusion(p) ==
    \E q \in 1..Len(Ranked) :
        /\ Ranked[q].idx = Selected[p]
        /\ Returned[p].score_vec_norm = Ranked[q].v
        /\ Returned[p].score_bm25_norm = Ranked[q].b
        /\ Returned[p].score_hybrid = Ranked[q].h
        /\ Returned[p].score_title = Ranked[q].t
        /\ Returned[p].score_total = Ranked[q].tot

(* C29: for alpha_hybrid in [0, 1] and title_boost_weight >= 0, every      *)
(* returned record has score_vec_norm, score_bm25_norm and score_hybrid in *)
(* [0, 1], score_title in [0, title_boost_weight] and score_total =        *)
(* score_hybrid + score_title, and they are the scores this query's fusion *)
(* computed for that chunk, never the all-zero default.                    *)
C29_ScoresInRangeAndFromFusion ==
    (SearchDone /\ InUnit(retr.alpha_hybrid) /\ RLe(Zero, retr.title_boost))
    => /\ Len(Returned) = Len(Selected)
       /\ \A p \in 1..Len(Returned) :
              ScoresInRange(Returned[p]) /\ ScoresOfFusion(p)

C29_Witness ==
    /\ SearchDone
    /\ RLt(Zero, retr.alpha_hybrid) /\ RLt(retr.alpha_hybrid, One)
    /\ \E p \in 1..Len(Returned) :
          /\ RLt(Zero, Returned[p].score_title)
          /\ RLt(Zero, Returned[p].score_hybrid)
          /\ RLt(Returned[p].score_hybrid, One)
          /\ RLt(Returned[p].score_hybrid, Returned[p].score_total)
    /\ \E p \in 1..Len(Returned) :
          /\ RLt(Zero, Returned[p].score_bm25_norm)
          /\ Returned[p].score_vec_norm = Zero
          /\ Returned[p].score_title = Zero

StreamAnswered == out.op = "chat_stream.build_context_block"

(* C30: chat_stream.get_retriever constructs the Retriever at most once in *)
(* a process: after a failed attempt every later call gives the            *)
(* unavailable marker without retrying, after a successful one every later *)
(* call gives that same instance whatever happens to the index files, and  *)
(* while unavailable build_context_block uses the local fallback.          *)
C30_ConstructedAtMostOnce ==
    [][/\ site.RETRIEVER.built =>
            (site'.RETRIEVER = site.RETRIEVER /\ ~site'.unavailable)
       /\ site.unavailable =>
            /\ site'.unavailable
            /\ site'.RETRIEVER = NoRetriever
            /\ (StreamAnswered' => out'.res.path = "local")]_vars

(* A request answered from the local fallback although the index files,    *)
(* missing when the retriever was first asked for, are now present         *)
C30_Witness ==
    /\ StreamAnswered
    /\ site.unavailable
    /\ ~site.RETRIEVER.built
    /\ FilesPresent(disk)
    /\ out.res.path = "local"
    /\ out.res.ctx # EmptyString

(* The instance of the first request still answers after the files changed *)
InstanceOutlivesFiles ==
    /\ StreamAnswered
    /\ site.RETRIEVER.built
    /\ site.RETRIEVER.meta = <<ChunkB1, ChunkC1>>
    /\ ~FilesPresent(disk)
    /\ out.res.path = "retriever"

====
